---- MODULE Spec2Model ----
(***************************************************************************)
(* Product catalog of pysorflow/mcpdemo: the products table, the CSV bulk  *)
(* loader (import_products.py) and the dynamic filter-and-query builder    *)
(* filter_products (local_mcp_server.py) with its bridge twin              *)
(* filter_products_advanced (ollama_mcp_bridge.py).                        *)
(*                                                                         *)
(* Text is a sequence of one-character strings, so that substring and      *)
(* wildcard matching are computed.  A Python value is a record             *)
(* [t, s, n, l]: t names the type, s holds a str, n an int and l the       *)
(* elements of a list of str.  A nullable SQL number is <<>> (NULL) or     *)
(* <<n>>.  An SQL statement is kept as its structure: the sequence of      *)
(* predicate fragments of its WHERE clause, each with the number of %s     *)
(* placeholders it holds, the ORDER BY list, and the parameter list that   *)
(* the driver binds to the placeholders from left to right.                *)
(***************************************************************************)
EXTENDS Integers, Sequences, FiniteSets, TLC

\* ------------------------------------------------------------- bounds
MaxFilters == 2
MaxPage == 3
MaxPageSize == 2
BatchSize == 2
MaxRuns == 2
MaxClock == 5
MaxOrdering == 2
MaxLimit == 3
MaxValues == 17

\* ---------------------------------------------------- program constants
DefaultPage == 1
DefaultPageSize == 20
BridgeDefaultPageSize == 10
SearchColumns == 5
ServerSearchLimit == 10
BridgeSearchLimit == 5
ShownValues == 15
AdvancedSearchLimit == 15
BridgeFacetLimit == 10

\* ---------------------------------------------------------------- text
Empty == <<>>

Lower(c) ==
  CASE c = "A" -> "a" [] c = "B" -> "b" [] c = "C" -> "c" [] c = "E" -> "e"
    [] c = "H" -> "h" [] c = "M" -> "m" [] c = "R" -> "r" [] c = "S" -> "s"
    [] c = "T" -> "t" [] c = "W" -> "w" [] c = "X" -> "x"
    [] OTHER -> c

\* pattern ILIKE-matches text: % is any run of characters, _ any one character,
\* every other character matches itself without regard to case.
RECURSIVE ILike(_, _)
ILike(text, pattern) ==
  IF pattern = <<>> THEN text = <<>>
  ELSE IF Head(pattern) = "%"
    THEN ILike(text, Tail(pattern)) \/ (text # <<>> /\ ILike(Tail(text), pattern))
  ELSE IF text = <<>> THEN FALSE
  ELSE (Head(pattern) = "_" \/ Lower(Head(pattern)) = Lower(Head(text)))
       /\ ILike(Tail(text), Tail(pattern))

\* ------------------------------------------------------- Python values
PyNone == [t |-> "none", s |-> <<>>, n |-> 0, l |-> <<>>]
PyStr(x) == [t |-> "str", s |-> x, n |-> 0, l |-> <<>>]
PyInt(k) == [t |-> "int", s |-> <<>>, n |-> k, l |-> <<>>]
PyList(xs) == [t |-> "list", s |-> <<>>, n |-> 0, l |-> xs]

Digit(d) == CASE d = 0 -> "0" [] d = 1 -> "1" [] d = 2 -> "2" [] d = 3 -> "3"
              [] d = 4 -> "4" [] d = 5 -> "5" [] d = 6 -> "6" [] d = 7 -> "7"
              [] d = 8 -> "8" [] d = 9 -> "9"

RECURSIVE NatStr(_)
NatStr(k) == IF k < 10 THEN <<Digit(k)>> ELSE NatStr(k \div 10) \o <<Digit(k % 10)>>

\* str(v) as an f-string renders it, for the str and int values the filters carry
PyFormat(v) ==
  IF v.t = "str" THEN v.s
  ELSE IF v.n < 0 THEN <<"-">> \o NatStr(0 - v.n) ELSE NatStr(v.n)

\* f"%{value}%"
Wildcarded(v) == PyStr(<<"%">> \o PyFormat(v) \o <<"%">>)

\* faulty variant: only None is skipped
IsSkippedNoneOnly(v) == v.t = "none"

\* filter_value is None or filter_value == ""
IsSkipped(v) == v.t = "none" \/ (v.t = "str" /\ v.s = <<>>)

\* ------------------------------------------------- the filter compiler
Variants == {"server", "bridge"}

\* the key's branch of the if/elif chain: column and SQL operator
ServerFilterTable ==
  [k \in {"category__icontains", "category__exact", "subcategory__icontains",
          "color__icontains", "size__exact", "size__in", "stock__gte",
          "stock__lte", "stock__gt", "stock__lt", "price__gte", "price__lte",
          "title__icontains", "sku__icontains", "warehouse__exact",
          "status__exact"} |->
     CASE k = "category__icontains" -> [col |-> "category_name", op |-> "ILIKE"]
       [] k = "category__exact" -> [col |-> "category_name", op |-> "="]
       [] k = "subcategory__icontains" -> [col |-> "subcategory_name", op |-> "ILIKE"]
       [] k = "color__icontains" -> [col |-> "color_name", op |-> "ILIKE"]
       [] k = "size__exact" -> [col |-> "size", op |-> "="]
       [] k = "size__in" -> [col |-> "size", op |-> "IN"]
       [] k = "stock__gte" -> [col |-> "stock", op |-> ">="]
       [] k = "stock__lte" -> [col |-> "stock", op |-> "<="]
       [] k = "stock__gt" -> [col |-> "stock", op |-> ">"]
       [] k = "stock__lt" -> [col |-> "stock", op |-> "<"]
       [] k = "price__gte" -> [col |-> "suggested_price", op |-> ">="]
       [] k = "price__lte" -> [col |-> "suggested_price", op |-> "<="]
       [] k = "title__icontains" -> [col |-> "product_title", op |-> "ILIKE"]
       [] k = "sku__icontains" -> [col |-> "sku", op |-> "ILIKE"]
       [] k = "warehouse__exact" -> [col |-> "warehouse", op |-> "="]
       [] k = "status__exact" -> [col |-> "product_status", op |-> "="]]

BridgeFilterTable ==
  [k \in {"category__icontains", "category__exact", "color__icontains",
          "size__exact", "size__in", "stock__gte", "stock__lte", "stock__gt",
          "stock__lt", "price__gte", "price__lte", "title__icontains",
          "warehouse__exact"} |-> ServerFilterTable[k]]

FilterTable(variant) ==
  IF variant = "server" THEN ServerFilterTable ELSE BridgeFilterTable

NoFragment == [conds |-> <<>>, params |-> <<>>]

\* faulty variant: any list, the empty one too, makes an IN predicate
InFragmentAnyList(col, value) ==
  IF value.t = "list"
    THEN [conds |-> <<[col |-> col, op |-> "IN", n |-> Len(value.l)]>>,
          params |-> [i \in 1..Len(value.l) |-> PyStr(value.l[i])]]
    ELSE [conds |-> <<>>, params |-> <<>>]

\* the size__in branch: if isinstance(filter_value, list) and filter_value
InFragment(col, value) ==
  IF value.t = "list" /\ value.l # <<>>
    THEN [conds |-> <<[col |-> col, op |-> "IN", n |-> Len(value.l)]>>,
          params |-> [i \in 1..Len(value.l) |-> PyStr(value.l[i])]]
    ELSE NoFragment

\* one pass of the loop body over an entry <<filter_key, filter_value>>
FilterFragment(variant, key, value) ==
  IF IsSkipped(value) THEN NoFragment
  ELSE IF key \notin DOMAIN FilterTable(variant) THEN NoFragment
  ELSE LET b == FilterTable(variant)[key] IN
    CASE b.op = "ILIKE" ->
           [conds |-> <<[col |-> b.col, op |-> "ILIKE", n |-> 1]>>,
            params |-> <<Wildcarded(value)>>]
      [] b.op = "IN" -> InFragment(b.col, value)
      [] OTHER ->
           [conds |-> <<[col |-> b.col, op |-> b.op, n |-> 1]>>,
            params |-> <<value>>]

\* faulty variant: the loop stops after its first entry
CompileFiltersFirstOnly(variant, filters) ==
  IF filters = <<>> THEN NoFragment
  ELSE FilterFragment(variant, Head(filters)[1], Head(filters)[2])

\* for filter_key, filter_value in filters.items(): ...
RECURSIVE CompileFilters(_, _)
CompileFilters(variant, filters) ==
  IF filters = <<>> THEN NoFragment
  ELSE LET f == FilterFragment(variant, Head(filters)[1], Head(filters)[2])
           r == CompileFilters(variant, Tail(filters))
       IN [conds |-> f.conds \o r.conds, params |-> f.params \o r.params]

\* if search: one OR predicate over five columns, five copies of the parameter
SearchFragment(search) ==
  IF search = <<>> THEN NoFragment
  ELSE [conds |-> <<[col |-> "search", op |-> "OR_ILIKE", n |-> SearchColumns]>>,
        params |-> [i \in 1..SearchColumns |-> Wildcarded(PyStr(search))]]

\* where_conditions and params as they stand at the "Build WHERE clause" comment
CompileWhere(variant, filters, search) ==
  LET f == CompileFilters(variant, filters)
      s == SearchFragment(search)
  IN [conds |-> f.conds \o s.conds, params |-> f.params \o s.params]

\* ------------------------------------------------ the ordering compiler
\* An ordering token is a sequence of lexemes: <<"-", "stock">> is "-stock".
ServerFieldMapping ==
  [f \in {"title", "category", "stock", "price", "sku", "color", "size",
          "warehouse", "status"} |->
     CASE f = "title" -> "product_title"
       [] f = "category" -> "category_name"
       [] f = "stock" -> "stock"
       [] f = "price" -> "suggested_price"
       [] f = "sku" -> "sku"
       [] f = "color" -> "color_name"
       [] f = "size" -> "size"
       [] f = "warehouse" -> "warehouse"
       [] f = "status" -> "product_status"]

BridgeFieldMapping ==
  [f \in {"title", "category", "stock", "price", "sku", "color", "size"} |->
     ServerFieldMapping[f]]

FieldMapping(variant) ==
  IF variant = "server" THEN ServerFieldMapping ELSE BridgeFieldMapping

\* field_mapping.get(field_name, field_name)
DbField(variant, field_name) ==
  IF Len(field_name) = 1 /\ field_name[1] \in DOMAIN FieldMapping(variant)
    THEN <<FieldMapping(variant)[field_name[1]]>>
    ELSE field_name

\* faulty variant: the minus sign is stripped but the direction stays ASC
OrderFieldAlwaysAsc(variant, field) ==
  IF field # <<>> /\ Head(field) = "-"
    THEN [col |-> DbField(variant, Tail(field)), dir |-> "ASC"]
    ELSE [col |-> DbField(variant, field), dir |-> "ASC"]

\* one pass of "for field in ordering"
OrderField(variant, field) ==
  IF field # <<>> /\ Head(field) = "-"
    THEN [col |-> DbField(variant, Tail(field)), dir |-> "DESC"]
    ELSE [col |-> DbField(variant, field), dir |-> "ASC"]

CompileOrdering(variant, ordering) ==
  [i \in 1..Len(ordering) |-> OrderField(variant, ordering[i])]

\* order_clause: the ORDER BY list, product_title when order_fields is empty
OrderClause(order_fields) ==
  IF order_fields # <<>> THEN order_fields
  ELSE <<[col |-> <<"product_title">>, dir |-> "ASC"]>>

\* ------------------------------------------------------------ the table
TextColumns == {"sku", "product_title", "product_description", "category_name",
                "subcategory_name", "color_name", "size", "warehouse",
                "product_status"}
NumberColumns == {"stock", "suggested_price"}
TableColumns == TextColumns \cup NumberColumns

\* the collation of the characters the data uses (code point order)
Alphabet == <<"&", "0", "1", "2", "3", "A", "B", "C", "E", "F", "H", "L", "M", "R",
              "S", "T", "W", "a", "b", "c", "d", "e", "f", "i", "k", "l", "m",
              "o", "p", "r", "s", "t", "u", "v", "w", "x">>
CharRank(c) == CHOOSE i \in 1..Len(Alphabet) : Alphabet[i] = c

RECURSIVE TextCmp(_, _)
TextCmp(a, b) ==
  IF a = <<>> THEN (IF b = <<>> THEN 0 ELSE -1)
  ELSE IF b = <<>> THEN 1
  ELSE IF Head(a) = Head(b) THEN TextCmp(Tail(a), Tail(b))
  ELSE IF CharRank(Head(a)) < CharRank(Head(b)) THEN -1 ELSE 1

\* ascending comparison of two nullable numbers, NULL after every number
NumberCmp(a, b) ==
  IF a = <<>> THEN (IF b = <<>> THEN 0 ELSE 1)
  ELSE IF b = <<>> THEN -1
  ELSE IF a[1] = b[1] THEN 0 ELSE IF a[1] < b[1] THEN -1 ELSE 1

ColumnCmp(r1, r2, column) ==
  IF column \in NumberColumns THEN NumberCmp(r1[column], r2[column])
  ELSE TextCmp(r1[column], r2[column])

RECURSIVE OrderCmp(_, _, _)
OrderCmp(r1, r2, order) ==
  IF order = <<>> THEN 0
  ELSE LET c == ColumnCmp(r1, r2, Head(order).col[1])
           col == Head(order).col[1]
           d == CASE Head(order).dir = "DESC" -> 0 - c
                  [] Head(order).dir = "DESC NULLS LAST" ->
                       IF r1[col] = <<>> \/ r2[col] = <<>> THEN c ELSE 0 - c
                  [] OTHER -> c
       IN IF d # 0 THEN d ELSE OrderCmp(r1, r2, Tail(order))

\* every order in which the store may return rows under ORDER BY order: rows
\* that tie on all keys come in any order
SortedOrders(rows, order) ==
  {s \in [1..Cardinality(rows) -> rows] :
     /\ \A i, j \in DOMAIN s : i # j => s[i] # s[j]
     /\ \A i, j \in DOMAIN s : i < j => OrderCmp(s[i], s[j], order) <= 0}

ValidOrder(order) ==
  \A i \in DOMAIN order : Len(order[i].col) = 1 /\ order[i].col[1] \in TableColumns

\* ------------------------------------------------- statement execution
\* one predicate fragment on a row, ps the parameters bound to its placeholders
EvalCond(c, ps, row) ==
  CASE c.op = "ILIKE" -> ILike(row[c.col], ps[1].s)
    [] c.op = "=" -> row[c.col] = ps[1].s
    [] c.op = "IN" -> \E i \in 1..c.n : row[c.col] = ps[i].s
    [] c.op = ">=" -> row[c.col] # <<>> /\ row[c.col][1] >= ps[1].n
    [] c.op = "<=" -> row[c.col] # <<>> /\ row[c.col][1] <= ps[1].n
    [] c.op = ">" -> row[c.col] # <<>> /\ row[c.col][1] > ps[1].n
    [] c.op = "<" -> row[c.col] # <<>> /\ row[c.col][1] < ps[1].n
    [] c.op = "OR_ILIKE" ->
         \/ ILike(row.product_title, ps[1].s)
         \/ ILike(row.product_description, ps[2].s)
         \/ ILike(row.sku, ps[3].s)
         \/ ILike(row.category_name, ps[4].s)
         \/ ILike(row.color_name, ps[5].s)
    [] c.op = "OR_FIELDS" ->
         \E i \in 1..c.n : c.cols[i] \in TextColumns /\ ILike(row[c.cols[i]], ps[i].s)

\* the WHERE clause on a row: the fragments ANDed, the placeholders bound to
\* the parameters from left to right
RECURSIVE EvalWhere(_, _, _)
EvalWhere(conds, ps, row) ==
  IF conds = <<>> THEN TRUE
  ELSE /\ EvalCond(Head(conds), SubSeq(ps, 1, Head(conds).n), row)
       /\ EvalWhere(Tail(conds), SubSeq(ps, Head(conds).n + 1, Len(ps)), row)

Placeholders(conds) ==
  LET RECURSIVE Sum(_)
      Sum(cs) == IF cs = <<>> THEN 0 ELSE Head(cs).n + Sum(Tail(cs))
  IN Sum(conds)

Matching(table, conds, ps) == {r \in table : EvalWhere(conds, ps, r)}

\* SELECT COUNT(*) FROM products {where_clause}
CountQuery(conds, ps) == [where |-> conds, params |-> ps]
\* faulty variant: COUNT(DISTINCT product_title)
ExecCountTitles(table, stmt) ==
  Cardinality({r.product_title : r \in Matching(table, stmt.where, stmt.params)})

ExecCount(table, stmt) == Cardinality(Matching(table, stmt.where, stmt.params))

\* faulty variant: LIMIT and OFFSET bound before the predicates' parameters
PageQueryLimitFirst(conds, order, ps, page_size, offset) ==
  [where |-> conds, order |-> order,
   params |-> <<PyInt(page_size), PyInt(offset)>> \o ps]

\* SELECT ... FROM products {where_clause} {order_clause} LIMIT %s OFFSET %s
PageQuery(conds, order, ps, page_size, offset) ==
  [where |-> conds, order |-> order,
   params |-> ps \o <<PyInt(page_size), PyInt(offset)>>]

\* the placeholders of an ORDER BY list: a column text that holds %s is one
OrderPlaceholders(order) ==
  Cardinality({i \in DOMAIN order : \E k \in DOMAIN order[i].col : order[i].col[k] = "%s"})

\* the placeholders of a statement's text: those of the WHERE fragments,
\* those of the ORDER BY list, and LIMIT %s OFFSET %s or LIMIT %s
StatementPlaceholders(stmt) ==
  IF "order" \notin DOMAIN stmt THEN Placeholders(stmt.where)
  ELSE Placeholders(stmt.where) + OrderPlaceholders(stmt.order)
       + (IF "paging" \in DOMAIN stmt THEN 1 ELSE 2)

StmtLimit(stmt) == stmt.params[Placeholders(stmt.where) + 1].n
StmtOffset(stmt) == stmt.params[Placeholders(stmt.where) + 2].n

\* the store rejects the statement
PageFails(stmt) ==
  ~ValidOrder(stmt.order) \/ StmtLimit(stmt) < 0 \/ StmtOffset(stmt) < 0

Slice(s, offset, limit) ==
  SubSeq(s, offset + 1, IF offset + limit < Len(s) THEN offset + limit ELSE Len(s))

\* the row lists fetchall() may return
ExecPage(table, stmt) ==
  LET ps == SubSeq(stmt.params, 1, Placeholders(stmt.where))
  IN {Slice(s, StmtOffset(stmt), StmtLimit(stmt)) :
        s \in SortedOrders(Matching(table, stmt.where, ps), stmt.order)}

\* ----------------------------------------------------------- the loader
\* html.unescape: the entity "&amp;" (one lexeme of the text) becomes "&"
clean_html_entities(text) ==
  [i \in DOMAIN text |-> IF text[i] = "&amp;" THEN "&" ELSE text[i]]

RECURSIVE Strip(_)
Strip(s) ==
  IF s = <<>> THEN s
  ELSE IF Head(s) = " " THEN Strip(Tail(s))
  ELSE IF s[Len(s)] = " " THEN Strip(SubSeq(s, 1, Len(s) - 1))
  ELSE s

DigitValue(c) ==
  CASE c = "0" -> 0 [] c = "1" -> 1 [] c = "2" -> 2 [] c = "3" -> 3 [] c = "4" -> 4
    [] c = "5" -> 5 [] c = "6" -> 6 [] c = "7" -> 7 [] c = "8" -> 8 [] c = "9" -> 9
    [] OTHER -> -1

\* the value of a run of decimal digits, <<>> when it is not one
RECURSIVE ParseDigits(_, _)
ParseDigits(s, acc) ==
  IF s = <<>> THEN <<acc>>
  ELSE IF DigitValue(Head(s)) < 0 THEN <<>>
  ELSE ParseDigits(Tail(s), 10 * acc + DigitValue(Head(s)))

ParseNumber(s) ==
  IF s = <<>> THEN <<>>
  ELSE IF Head(s) = "-"
    THEN (IF Tail(s) = <<>> \/ ParseDigits(Tail(s), 0) = <<>> THEN <<>>
          ELSE <<0 - ParseDigits(Tail(s), 0)[1]>>)
  ELSE ParseDigits(s, 0)

\* faulty variant: an unparsable cell becomes 0
safe_int_zero(value) ==
  IF Strip(value) = <<>> THEN <<>>
  ELSE IF ParseNumber(Strip(value)) = <<>> THEN <<0>> ELSE ParseNumber(Strip(value))

\* int(str(value).strip()), None for an empty or unparsable cell
safe_int(value) == IF Strip(value) = <<>> THEN <<>> ELSE ParseNumber(Strip(value))

\* Decimal(str(value).strip()), None for an empty or unparsable cell
safe_decimal(value) == IF Strip(value) = <<>> THEN <<>> ELSE ParseNumber(Strip(value))

\* the tuple built from one CSV row
PrepareRow(row) ==
  [sku |-> row.sku,
   product_title |-> clean_html_entities(row.product_title),
   product_description |-> clean_html_entities(row.product_description),
   suggested_price |-> safe_decimal(row.suggested_price),
   category_name |-> clean_html_entities(row.category_name),
   subcategory_name |-> clean_html_entities(row.subcategory_name),
   color_name |-> clean_html_entities(row.color_name),
   size |-> clean_html_entities(row.size),
   stock |-> safe_int(row.stock),
   warehouse |-> clean_html_entities(row.warehouse),
   product_status |-> clean_html_entities(row.product_status)]

\* the columns the statement does not name: id SERIAL, created_at and
\* updated_at DEFAULT CURRENT_TIMESTAMP
Stamped(data, id, created_at, updated_at) ==
  data @@ [id |-> id, created_at |-> created_at, updated_at |-> updated_at]

\* faulty variant: no conflict target, the tuple is always inserted
UpsertAppend(table, data, ts, id) == table \cup {Stamped(data, id, ts, ts)}

\* faulty variant: the conflicting row is deleted and inserted anew
UpsertReplace(table, data, ts, id) ==
  {r \in table : r.sku # data.sku} \cup {Stamped(data, id, ts, ts)}

\* INSERT ... ON CONFLICT (sku) DO UPDATE SET every named column and
\* updated_at = CURRENT_TIMESTAMP; ts is the transaction's timestamp, id the
\* next value of the sequence, drawn whether or not the SKU conflicts
Upsert(table, data, ts, id) ==
  IF \E r \in table : r.sku = data.sku
    THEN LET old == CHOOSE r \in table : r.sku = data.sku
         IN (table \ {old}) \cup {Stamped(data, old.id, old.created_at, ts)}
    ELSE table \cup {Stamped(data, id, ts, ts)}

\* cursor.executemany(insert_sql, batch_data): one statement per tuple
RECURSIVE ExecuteMany(_, _, _, _)
ExecuteMany(table, batch, ts, id) ==
  IF batch = <<>> THEN table
  ELSE ExecuteMany(Upsert(table, Head(batch), ts, id), Tail(batch), ts, id + 1)

\* ------------------------------------------------------------ the data
Hoodie == <<"H", "o", "o", "d", "i", "e">>
Cap == <<"C", "a", "p">>
Tee == <<"T", "e", "e">>
Tops == <<"T", "o", "p", "s">>
Hats == <<"H", "a", "t", "s">>
Blue == <<"B", "l", "u", "e">>
LowerBlue == <<"b", "l", "u", "e">>
Red == <<"R", "e", "d">>
East == <<"E", "a", "s", "t">>
West == <<"W", "e", "s", "t">>
Active == <<"A", "c", "t", "i", "v", "e">>
Closeout == <<"C", "l", "o", "s", "e", "o", "u", "t">>

CsvRow(sku, title, description, category, subcategory, color, size, stock, price, warehouse, status) ==
  [sku |-> sku, product_title |-> title, product_description |-> description,
   category_name |-> category, subcategory_name |-> subcategory,
   color_name |-> color, size |-> size, stock |-> stock,
   suggested_price |-> price, warehouse |-> warehouse, product_status |-> status]

\* the CSV file read by import_csv_data: two rows that tie on the title, a row
\* without SKU, a row without price, a row whose stock does not parse, and a
\* second row for the SKU A1
CsvFile ==
  << CsvRow(<<"A", "1">>, Hoodie, <<"w", "a", "r", "m">>, Tops,
            <<"F", "l", "e", "e", "c", "e">>, Blue, <<"S">>, <<"1">>, <<"2">>,
            East, Active),
     CsvRow(<<"A", "2">>, Hoodie, <<"w", "a", "r", "m">>, Tops,
            <<"F", "l", "e", "e", "c", "e">>, Red, <<"M">>, <<" ", "2">>, <<"1">>,
            East, Active),
     CsvRow(<<>>, Cap, <<>>, Hats, <<>>, Red, <<"S">>, <<"3">>, <<"1">>,
            West, Active),
     CsvRow(<<"B", "1">>, Cap, <<>>, Hats, <<>>, LowerBlue, <<"S">>, <<"0">>, <<>>,
            West, Active),
     CsvRow(<<"B", "2">>, Tee, <<"R", "&amp;", "B">>, Tops,
            <<"B", "a", "s", "i", "c">>, Red, <<"L">>, <<"x">>, <<"2">>,
            West, Closeout),
     CsvRow(<<"A", "1">>, Hoodie, <<"w", "a", "r", "m">>, Tops,
            <<"F", "l", "e", "e", "c", "e">>, Blue, <<"S">>, <<"3">>, <<"2">>,
            East, Active) >>

\* ----------------------------------------------------------- the state
VARIABLES
  store,            \* the rows of the products table (committed)
  now,              \* the store's clock: CURRENT_TIMESTAMP of the next transaction
  next_id,          \* the next value of the sequence behind id SERIAL
  row_num,          \* import_csv_data: rows of the file read so far
  batch_data,       \* import_csv_data: the tuples of the open batch
  processed_rows,   \* import_csv_data: rows written by committed batches
  error_rows,       \* import_csv_data: rows skipped
  import_pc,        \* import_csv_data: "run" | "done" | "failed" (outer except)
  aborted,          \* import_csv_data: a statement failed, the transaction is aborted
  runs,             \* how many times the loader was started
  start_store,      \* the table as the running load found it
  import_return,    \* <<>> while running, else <<processed, errors>> as returned
  tool,             \* the tool or function called: "" | "filter_products" | ...
  conn,             \* its connection: "none" | "open" | "txn" | "failed" | "closed"
  pc,               \* the call: "idle" | "count" | "page" | ... | "done"
  variant,          \* "server": filter_products, "bridge": filter_products_advanced
  arguments,        \* the call's arguments, each <<>> (absent) or <<value>>
  where_conditions, \* predicate fragments
  params,           \* their bound parameters
  order_fields,     \* ORDER BY clauses
  offset,
  executed,         \* the statements the cursor executed, in order
  total_count,
  products,         \* the rows fetchall() returned
  total_pages,
  has_next,
  has_previous,
  result,           \* "" (running) | "ok" | "error": the except branch returned
  seen,             \* the SKUs returned since the client asked for page 1
  sweep_ok,         \* the client went page by page and no batch was committed
  raced,            \* a batch was committed after the call's COUNT statement
  stats,            \* get_filter_stats: the sections of the response, in order
  other             \* a second client of update_stock: its call, as a record

db == <<store, now, next_id>>
importVars == <<row_num, batch_data, processed_rows, error_rows, import_pc,
                aborted, runs, start_store, import_return>>
queryVars == <<tool, conn, pc, variant, arguments, where_conditions, params,
               order_fields, offset, executed, total_count, products,
               total_pages, has_next, has_previous, result>>
ghostVars == <<seen, sweep_ok, raced>>
sideVars == <<stats, other>>
vars == <<db, importVars, queryVars, ghostVars, sideVars>>

\* arguments.get(key, default)
Get(args, key, default) == IF args[key] = <<>> THEN default ELSE args[key][1]

TitleOrdering == << <<"title">> >>

ArgFilters(args) == Get(args, "filters", <<>>)
ArgOrdering(args) == Get(args, "ordering", TitleOrdering)
ArgSearch(args) == Get(args, "search", <<>>)
\* the bridge's handler always asks for page 1 and a page of 10 by default
ArgPage(v, args) == IF v = "server" THEN Get(args, "page", DefaultPage) ELSE DefaultPage
ArgPageSize(v, args) ==
  Get(args, "page_size", IF v = "server" THEN DefaultPageSize ELSE BridgeDefaultPageSize)

page == ArgPage(variant, arguments)
page_size == ArgPageSize(variant, arguments)

NoArguments ==
  [filters |-> <<>>, ordering |-> <<>>, page |-> <<>>, page_size |-> <<>>,
   search |-> <<>>]

\* no call in progress
Idle ==
  /\ tool = "" /\ conn = "none"
  /\ pc = "idle" /\ variant = "server" /\ arguments = NoArguments
  /\ where_conditions = <<>> /\ params = <<>> /\ order_fields = <<>>
  /\ offset = 0 /\ executed = <<>> /\ total_count = 0 /\ products = <<>>
  /\ total_pages = 0 /\ has_next = FALSE /\ has_previous = FALSE /\ result = ""
  /\ seen = {} /\ sweep_ok = FALSE /\ raced = FALSE
  /\ stats = <<>>

\* the second client has no call in progress
OtherIdle ==
  [pc |-> "idle", sku |-> <<>>, stock |-> 0, title |-> <<>>, result |-> "", at |-> 0]

Init ==
  /\ store = {} /\ now = 1 /\ next_id = 1
  /\ row_num = 0 /\ batch_data = <<>> /\ processed_rows = 0 /\ error_rows = 0
  /\ import_pc = "run" /\ aborted = FALSE /\ runs = 1 /\ start_store = {}
  /\ import_return = <<>>
  /\ Idle
  /\ other = OtherIdle

\* ---------------------------------------------------- import_csv_data
\* cursor.executemany(insert_sql, batch) and conn.commit(), seen from the
\* queries: the batch becomes visible at once, and the clock moves on
Commit(batch) ==
  /\ store' = ExecuteMany(store, batch, now, next_id)
  /\ now' = now + 1
  /\ next_id' = next_id + Len(batch)
  /\ sweep_ok' = FALSE
  /\ raced' = (raced \/ pc \in {"page", "done"})
  /\ seen' = seen

\* one pass of "for row_num, row in enumerate(reader, 1)"; in an aborted
\* transaction executemany raises, and the inner except counts the row
ImportRow ==
  /\ import_pc = "run"
  /\ row_num < Len(CsvFile)
  /\ row_num' = row_num + 1
  /\ LET data == PrepareRow(CsvFile[row_num + 1]) IN
       IF data.sku = <<>>
         THEN /\ error_rows' = error_rows + 1
              /\ UNCHANGED <<db, batch_data, processed_rows, ghostVars>>
         ELSE LET batch == Append(batch_data, data) IN
              IF Len(batch) >= BatchSize
                THEN IF aborted
                       THEN /\ error_rows' = error_rows + 1
                            /\ batch_data' = batch
                            /\ UNCHANGED <<db, processed_rows, ghostVars>>
                       ELSE /\ Commit(batch)
                            /\ processed_rows' = processed_rows + Len(batch)
                            /\ batch_data' = <<>>
                            /\ error_rows' = error_rows
                ELSE /\ batch_data' = batch
                     /\ error_rows' = error_rows
                     /\ UNCHANGED <<db, processed_rows, ghostVars>>
  /\ UNCHANGED <<import_pc, aborted, runs, start_store, import_return, queryVars>>
  /\ UNCHANGED sideVars

\* the store rejects a statement of executemany in the loop: the inner except
\* counts the row and goes on; the batch is kept and the transaction is left
\* aborted; the statements that ran before the failing one drew their ids
ImportRowFails ==
  /\ import_pc = "run" /\ ~aborted
  /\ row_num < Len(CsvFile)
  /\ LET data == PrepareRow(CsvFile[row_num + 1])
         batch == Append(batch_data, data)
     IN /\ data.sku # <<>>
        /\ Len(batch) >= BatchSize
        /\ batch_data' = batch
        /\ \E drawn \in 0..Len(batch) : next_id' = next_id + drawn
  /\ row_num' = row_num + 1
  /\ error_rows' = error_rows + 1
  /\ aborted' = TRUE
  /\ UNCHANGED <<store, now, processed_rows, import_pc, runs, start_store,
                 import_return, queryVars, ghostVars>>
  /\ UNCHANGED sideVars

\* faulty variant: the outer except commits what the aborted batch had written
ImportRaisesCommits ==
  /\ import_pc' = "failed"
  /\ aborted' = FALSE
  /\ import_return' = <<0, 0>>
  /\ store' = Upsert(store, Head(batch_data), now, next_id)
  /\ UNCHANGED <<now, batch_data, processed_rows, ghostVars>>

\* the outer except: conn.rollback() and return 0, 0
ImportRaises ==
  /\ import_pc' = "failed"
  /\ aborted' = FALSE
  /\ import_return' = <<0, 0>>
  /\ UNCHANGED <<store, now, batch_data, processed_rows, ghostVars>>

\* "Process remaining batch", the success rate and the return
ImportFinish ==
  /\ import_pc = "run"
  /\ row_num = Len(CsvFile)
  /\ IF batch_data # <<>> /\ aborted
       THEN ImportRaises /\ UNCHANGED next_id
       ELSE /\ IF batch_data # <<>>
                 THEN /\ Commit(batch_data)
                      /\ processed_rows' = processed_rows + Len(batch_data)
                      /\ batch_data' = <<>>
                 ELSE UNCHANGED <<db, batch_data, processed_rows, ghostVars>>
            /\ IF processed_rows' + error_rows = 0
                 THEN import_pc' = "failed" /\ import_return' = <<0, 0>>
                 ELSE /\ import_pc' = "done"
                      /\ import_return' = <<processed_rows', error_rows>>
            /\ UNCHANGED aborted
  /\ UNCHANGED <<row_num, error_rows, runs, start_store, queryVars>>
  /\ UNCHANGED sideVars

\* the store rejects a statement of the remaining batch
ImportFinishFails ==
  /\ import_pc = "run" /\ ~aborted
  /\ row_num = Len(CsvFile)
  /\ batch_data # <<>>
  /\ ImportRaises
  /\ \E drawn \in 0..Len(batch_data) : next_id' = next_id + drawn
  /\ UNCHANGED <<row_num, error_rows, runs, start_store, queryVars>>
  /\ UNCHANGED sideVars

\* main() run again on the same file
RerunImport ==
  /\ import_pc \in {"done", "failed"}
  /\ runs < MaxRuns
  /\ runs' = runs + 1
  /\ start_store' = store
  /\ row_num' = 0 /\ batch_data' = <<>> /\ processed_rows' = 0 /\ error_rows' = 0
  /\ import_pc' = "run" /\ aborted' = FALSE /\ import_return' = <<>>
  /\ UNCHANGED <<db, queryVars, ghostVars>>
  /\ UNCHANGED sideVars

\* ----------------------------------------------------- filter_products
\* faulty variant: the page number taken as zero-based
OffsetZeroBased(p, size) == p * size

\* offset = (page - 1) * page_size
Offset(p, size) == (p - 1) * size

\* from the argument lookup to the offset
Compile(v, args) ==
  /\ tool' = "filter_products"
  /\ conn' = "open"
  /\ variant' = v
  /\ arguments' = args
  /\ LET w == CompileWhere(v, ArgFilters(args), ArgSearch(args)) IN
       /\ where_conditions' = w.conds
       /\ params' = w.params
  /\ order_fields' = CompileOrdering(v, ArgOrdering(args))
  /\ offset' = Offset(ArgPage(v, args), ArgPageSize(v, args))
  /\ pc' = "count"
  /\ executed' = <<>> /\ total_count' = 0 /\ products' = <<>>
  /\ total_pages' = 0 /\ has_next' = FALSE /\ has_previous' = FALSE
  /\ result' = ""
  /\ raced' = FALSE

\* a client calls the server's filter_products tool
CallFilterProducts(Domain) ==
  /\ pc = "idle"
  /\ \E args \in Domain : Compile("server", args)
  /\ seen' = {}
  /\ sweep_ok' = (ArgPage("server", arguments') = 1)
  /\ UNCHANGED <<db, importVars>>
  /\ UNCHANGED sideVars

\* the bridge's ADVANCED_FILTER branch: "if filters or search", page 1
CallFilterProductsAdvanced(Domain) ==
  /\ pc = "idle"
  /\ \E args \in Domain :
       /\ args.page = <<>>
       /\ ArgFilters(args) # <<>> \/ ArgSearch(args) # <<>>
       /\ Compile("bridge", args)
  /\ seen' = {}
  /\ sweep_ok' = TRUE
  /\ UNCHANGED <<db, importVars>>
  /\ UNCHANGED sideVars

\* the client follows "Next: Page n+1" with the arguments otherwise unchanged
CallNextPage ==
  /\ pc = "done" /\ variant = "server" /\ result = "ok" /\ has_next
  /\ Compile("server", [arguments EXCEPT !.page = <<page + 1>>])
  /\ UNCHANGED <<db, importVars, seen, sweep_ok>>
  /\ UNCHANGED sideVars

\* the client is done with the response; the handler's locals are gone
Return ==
  /\ pc = "done"
  /\ tool' = "" /\ conn' = "none"
  /\ pc' = "idle" /\ variant' = "server" /\ arguments' = NoArguments
  /\ where_conditions' = <<>> /\ params' = <<>> /\ order_fields' = <<>>
  /\ offset' = 0 /\ executed' = <<>> /\ total_count' = 0 /\ products' = <<>>
  /\ total_pages' = 0 /\ has_next' = FALSE /\ has_previous' = FALSE
  /\ result' = ""
  /\ seen' = {} /\ sweep_ok' = FALSE /\ raced' = FALSE
  /\ UNCHANGED <<db, importVars>>
  /\ stats' = <<>> /\ UNCHANGED other

\* cursor.execute(count_query, params); total_count = cursor.fetchone()[0]
ExecuteCount ==
  /\ pc = "count"
  /\ LET stmt == CountQuery(where_conditions, params) IN
       /\ executed' = Append(executed, stmt)
       /\ total_count' = ExecCount(store, stmt)
  /\ pc' = "page"
  /\ conn' = "txn"
  /\ UNCHANGED <<db, importVars, ghostVars, tool, variant, arguments,
                 where_conditions, params, order_fields, offset, products,
                 total_pages, has_next, has_previous, result>>
  /\ UNCHANGED sideVars

\* total_pages, has_next, has_previous; the bridge prints Next and Previous
\* only under "if total_pages > 1"
\* faulty variants: the division rounded down, and rounded up once too often
TotalPagesFloor(count, size) == count \div size
TotalPagesPlusOne(count, size) == (count \div size) + 1

TotalPages(count, size) == (count + size - 1) \div size
HasNext(v, p, pages) == IF v = "server" THEN p < pages ELSE pages > 1 /\ p < pages
HasPrevious(v, p, pages) == IF v = "server" THEN p > 1 ELSE pages > 1 /\ p > 1

Skus(rows) == {rows[i].sku : i \in DOMAIN rows}

\* cursor.execute(query, params + [page_size, offset]) up to the return; a
\* rejected statement and a division by zero end in the except branch
ExecutePage ==
  /\ pc = "page"
  /\ pc' = "done"
  /\ LET stmt == PageQuery(where_conditions, OrderClause(order_fields), params,
                           page_size, offset) IN
       /\ executed' = Append(executed, stmt)
       /\ IF PageFails(stmt)
            THEN /\ result' = "error"
                 /\ conn' = "failed"
                 /\ UNCHANGED <<products, total_pages, has_next, has_previous, seen>>
            ELSE \E rows \in ExecPage(store, stmt) :
                   /\ products' = rows
                   /\ conn' = "closed"
                   /\ IF page_size = 0
                        THEN /\ result' = "error"
                             /\ UNCHANGED <<total_pages, has_next, has_previous, seen>>
                        ELSE /\ total_pages' = TotalPages(total_count, page_size)
                             /\ has_next' = HasNext(variant, page, total_pages')
                             /\ has_previous' = HasPrevious(variant, page, total_pages')
                             /\ result' = "ok"
                             /\ seen' = seen \cup Skus(rows)
  /\ UNCHANGED <<db, importVars, sweep_ok, raced, tool, variant, arguments,
                 where_conditions, params, order_fields, offset, total_count>>
  /\ UNCHANGED sideVars

\* -------------------------------------------------------- update_stock
\* the two servers that offer update_stock and search_products
Servers == {"server", "mcp"}

ArgSku(args) == Get(args, "sku", Empty)
ArgStock(args) == Get(args, "stock", PyNone)

\* faulty variant: "if not stock", which takes 0 for a missing value
StockMissingFalsy(v) == v.t = "none" \/ (v.t = "int" /\ v.n = 0)

\* if stock is None
StockMissing(v) == v.t = "none"

\* a client calls update_stock: the two checks, then get_db_connection()
CallUpdateStock(Domain) ==
  /\ pc = "idle"
  /\ now < MaxClock
  /\ \E v \in Servers, args \in Domain :
       /\ tool' = "update_stock"
       /\ variant' = v
       /\ arguments' = args
       /\ IF ArgSku(args) = <<>>
            THEN pc' = "done" /\ result' = "sku_required" /\ conn' = "none"
            ELSE IF StockMissing(ArgStock(args))
              THEN pc' = "done" /\ result' = "stock_required" /\ conn' = "none"
              ELSE pc' = "select" /\ result' = "" /\ conn' = "open"
  /\ UNCHANGED <<db, importVars, ghostVars, where_conditions, params,
                 order_fields, offset, executed, total_count, products,
                 total_pages, has_next, has_previous>>
  /\ UNCHANGED sideVars

\* faulty variant: the existence check without its WHERE clause
FindProductAny(table, sku) == table

\* SELECT product_title FROM products WHERE sku = %s
FindProduct(table, sku) == {r \in table : r.sku = sku}

\* "Check if product exists": the not-found return closes the connection
SelectProduct ==
  /\ tool = "update_stock" /\ pc = "select"
  /\ executed' = Append(executed, [stmt |-> "SELECT", params |-> <<ArgSku(arguments)>>])
  /\ LET found == FindProduct(store, ArgSku(arguments)) IN
       IF found = {}
         THEN /\ products' = <<>>
              /\ conn' = "closed" /\ result' = "not_found" /\ pc' = "done"
         ELSE /\ products' = <<CHOOSE r \in found : TRUE>>
              /\ conn' = "txn" /\ result' = "" /\ pc' = "update"
  /\ UNCHANGED <<db, importVars, ghostVars, tool, variant, arguments,
                 where_conditions, params, order_fields, offset, total_count,
                 total_pages, has_next, has_previous>>
  /\ UNCHANGED sideVars

\* faulty variant: a stock of 0 deletes the row
UpdateStockDeletesAtZero(table, sku, value, ts) ==
  IF value = 0 THEN {r \in table : r.sku # sku}
  ELSE {IF r.sku = sku THEN [r EXCEPT !.stock = <<value>>, !.updated_at = ts] ELSE r :
          r \in table}

\* faulty variant: the UPDATE never lowers a stock
UpdateStockKeepsHigher(table, sku, value, ts) ==
  {IF r.sku = sku /\ (r.stock = <<>> \/ r.stock[1] < value)
     THEN [r EXCEPT !.stock = <<value>>, !.updated_at = ts] ELSE r : r \in table}

\* faulty variant: the UPDATE without its WHERE clause
UpdateStockEveryRow(table, sku, value, ts) ==
  {[r EXCEPT !.stock = <<value>>, !.updated_at = ts] : r \in table}

\* UPDATE products SET stock = %s, updated_at = CURRENT_TIMESTAMP WHERE sku = %s
UpdateStock(table, sku, value, ts) ==
  {IF r.sku = sku THEN [r EXCEPT !.stock = <<value>>, !.updated_at = ts] ELSE r :
     r \in table}

\* "Update stock", conn.commit(), the two close() and the success message,
\* which names the title the existence check read
UpdateProduct ==
  /\ tool = "update_stock" /\ pc = "update"
  /\ executed' = Append(executed, [stmt |-> "UPDATE",
                                    params |-> <<ArgStock(arguments), ArgSku(arguments)>>])
  /\ store' = UpdateStock(store, ArgSku(arguments), ArgStock(arguments).n, now)
  /\ now' = now + 1
  /\ conn' = "closed" /\ result' = "ok" /\ pc' = "done"
  /\ UNCHANGED <<next_id, importVars, ghostVars, tool, variant, arguments,
                 where_conditions, params, order_fields, offset, total_count,
                 products, total_pages, has_next, has_previous>>
  /\ UNCHANGED sideVars

\* the store fails at the statement: the except branch returns the error text;
\* it neither rolls back nor closes
StoreFailure ==
  /\ tool = "update_stock" /\ pc \in {"select", "update"}
  /\ executed' = Append(executed, [stmt |-> IF pc = "select" THEN "SELECT" ELSE "UPDATE",
                                    params |-> <<>>])
  /\ conn' = "failed" /\ result' = "error" /\ pc' = "done"
  /\ UNCHANGED <<db, importVars, ghostVars, tool, variant, arguments,
                 where_conditions, params, order_fields, offset, total_count,
                 products, total_pages, has_next, has_previous>>
  /\ UNCHANGED sideVars

\* ------------------------------------- update_stock, a second client
\* another process serves a second call of update_stock, with an SKU and a
\* stock that pass the two checks, on a connection of its own
OtherCall(SkuDomain, StockDomain) ==
  /\ other.pc = "idle"
  /\ now < MaxClock
  /\ \E s \in SkuDomain, v \in StockDomain :
       other' = [OtherIdle EXCEPT !.pc = "select", !.sku = s, !.stock = v]
  /\ UNCHANGED <<db, importVars, queryVars, ghostVars, stats>>

\* its existence check
OtherSelect ==
  /\ other.pc = "select"
  /\ LET found == FindProduct(store, other.sku) IN
       other' = IF found = {}
                  THEN [other EXCEPT !.pc = "done", !.result = "not_found"]
                  ELSE [other EXCEPT !.pc = "update",
                                     !.title = (CHOOSE r \in found : TRUE).product_title]
  /\ UNCHANGED <<db, importVars, queryVars, ghostVars, stats>>

\* its UPDATE and commit. The row lock orders the UPDATE of two transactions
\* on one row as their commits are ordered, so each UPDATE is taken together
\* with its commit; "at" keeps the time of the commit.
OtherUpdate ==
  /\ other.pc = "update"
  /\ store' = UpdateStock(store, other.sku, other.stock, now)
  /\ now' = now + 1
  /\ other' = [other EXCEPT !.pc = "done", !.result = "ok", !.at = now]
  /\ UNCHANGED <<next_id, importVars, queryVars, ghostVars, stats>>

\* its client is done with the response
OtherReturn ==
  /\ other.pc = "done"
  /\ other' = OtherIdle
  /\ UNCHANGED <<db, importVars, queryVars, ghostVars, stats>>

\* ------------------------------------------------------ the dispatcher
\* handle_list_tools: the names each server advertises
AdvertisedTools(v) ==
  IF v = "mcp"
    THEN {"get_product", "list_products", "update_stock", "search_products",
          "advanced_search_products", "get_categories", "get_low_stock_products",
          "filter_products"}
    ELSE {"get_product", "list_products", "filter_products", "update_stock",
          "search_products", "advanced_search_products", "get_categories",
          "get_low_stock_products", "get_filter_stats"}

\* handle_call_tool: the names its if/elif chain has a branch for
DispatchedTools(v) ==
  IF v = "mcp"
    THEN {"get_product", "list_products", "update_stock", "search_products",
          "advanced_search_products", "get_categories", "get_low_stock_products"}
    ELSE {"get_product", "list_products", "filter_products", "update_stock",
          "search_products", "advanced_search_products", "get_categories",
          "get_low_stock_products", "get_filter_stats"}

\* a client picks a name from the server's list and calls it: the chain
\* either enters the branch of the name or ends in
\* raise ValueError(f"Unknown tool: {name}")
CallAdvertisedTool ==
  /\ pc = "idle"
  /\ \E v \in Servers : \E name \in AdvertisedTools(v) :
       /\ variant' = v
       /\ tool' = name
       /\ result' = IF name \in DispatchedTools(v) THEN "dispatched" ELSE "unknown_tool"
  /\ pc' = "done"
  /\ UNCHANGED <<db, importVars, ghostVars, sideVars, conn, arguments,
                 where_conditions, params, order_fields, offset, executed,
                 total_count, products, total_pages, has_next, has_previous>>

\* ----------------------------------------------------- search_products
ArgQuery(args) == Get(args, "query", Empty)
ArgLimit(v, args) ==
  Get(args, "limit", IF v = "bridge" THEN BridgeSearchLimit ELSE ServerSearchLimit)

\* f"%{query}%"
SearchPattern(query) == Wildcarded(PyStr(query)).s

\* the WHERE clause of the search statement: six columns ORed
SearchMatching(table, pattern) ==
  {r \in table :
     \/ ILike(r.product_title, pattern)
     \/ ILike(r.product_description, pattern)
     \/ ILike(r.sku, pattern)
     \/ ILike(r.category_name, pattern)
     \/ ILike(r.color_name, pattern)
     \/ ILike(r.subcategory_name, pattern)}

\* faulty variant: the title is asked before the SKU
SearchRankTitleFirst(row, pattern) ==
  IF ILike(row.product_title, pattern) THEN 1
  ELSE IF ILike(row.sku, pattern) THEN 2
  ELSE IF ILike(row.category_name, pattern) THEN 3
  ELSE 4

\* CASE WHEN sku ILIKE %s THEN 1 WHEN product_title ILIKE %s THEN 2
\*      WHEN category_name ILIKE %s THEN 3 ELSE 4 END
SearchRank(row, pattern) ==
  IF ILike(row.sku, pattern) THEN 1
  ELSE IF ILike(row.product_title, pattern) THEN 2
  ELSE IF ILike(row.category_name, pattern) THEN 3
  ELSE 4

\* ORDER BY CASE ... END, product_title
SearchCmp(r1, r2, pattern) ==
  IF SearchRank(r1, pattern) # SearchRank(r2, pattern)
    THEN (IF SearchRank(r1, pattern) < SearchRank(r2, pattern) THEN -1 ELSE 1)
    ELSE TextCmp(r1.product_title, r2.product_title)

\* the row lists fetchall() may return: rows that tie on rank and title come
\* in any order, LIMIT cuts the sorted list
ExecSearch(table, pattern, limit) ==
  LET rows == SearchMatching(table, pattern)
  IN {Slice(s, 0, limit) :
        s \in {q \in [1..Cardinality(rows) -> rows] :
                 /\ \A i, j \in DOMAIN q : i # j => q[i] # q[j]
                 /\ \A i, j \in DOMAIN q : i < j => SearchCmp(q[i], q[j], pattern) <= 0}}

\* a client calls search_products; the servers refuse an empty query, the
\* bridge does not
CallSearchProducts(Domain) ==
  /\ pc = "idle"
  /\ \E v \in Servers \cup {"bridge"}, args \in Domain :
       /\ tool' = "search_products"
       /\ variant' = v
       /\ arguments' = args
       /\ IF v \in Servers /\ ArgQuery(args) = <<>>
            THEN pc' = "done" /\ result' = "query_required" /\ conn' = "none"
            ELSE pc' = "search" /\ result' = "" /\ conn' = "open"
  /\ UNCHANGED <<db, importVars, ghostVars, where_conditions, params,
                 order_fields, offset, executed, total_count, products,
                 total_pages, has_next, has_previous>>
  /\ UNCHANGED sideVars

\* cursor.execute(...), fetchall() and the two close(); a negative LIMIT is
\* rejected by the store and the except branch returns the error text
ExecuteSearch ==
  /\ tool = "search_products" /\ pc = "search"
  /\ LET pattern == SearchPattern(ArgQuery(arguments))
         limit == ArgLimit(variant, arguments)
     IN /\ executed' = Append(executed, [stmt |-> "SEARCH",
                                         params |-> <<pattern, pattern, pattern, pattern,
                                                      pattern, pattern, pattern, pattern,
                                                      pattern, limit>>])
        /\ IF limit < 0
             THEN products' = <<>> /\ conn' = "failed" /\ result' = "error"
             ELSE /\ products' \in ExecSearch(store, pattern, limit)
                  /\ conn' = "closed"
                  /\ result' = IF products' = <<>> THEN "no_products" ELSE "ok"
  /\ pc' = "done"
  /\ UNCHANGED <<db, importVars, ghostVars, tool, variant, arguments,
                 where_conditions, params, order_fields, offset, total_count,
                 total_pages, has_next, has_previous>>
  /\ UNCHANGED sideVars

\* ----------------------------------------------------- get_filter_stats
\* field_mapping of get_filter_stats: the column of each facet field
ServerStatsMapping ==
  [f \in {"category", "subcategory", "color", "size", "warehouse", "status"} |->
     CASE f = "category" -> "category_name"
       [] f = "subcategory" -> "subcategory_name"
       [] f = "color" -> "color_name"
       [] f = "size" -> "size"
       [] f = "warehouse" -> "warehouse"
       [] f = "status" -> "product_status"]

BridgeStatsMapping ==
  [f \in {"category", "color", "size", "warehouse", "status"} |-> ServerStatsMapping[f]]

StatsMapping(v) == IF v = "bridge" THEN BridgeStatsMapping ELSE ServerStatsMapping

\* arguments.get("fields", [...]) and "if fields is None"
ArgFields(v, args) ==
  Get(args, "fields", IF v = "bridge" THEN <<"category", "color", "size", "warehouse">>
                      ELSE <<"category", "color", "size">>)

\* SELECT col, COUNT(*) ... WHERE col IS NOT NULL AND col != '' GROUP BY col
FacetGroups(table, col) ==
  {<<v, Cardinality({r \in table : r[col] = v})>> :
     v \in {r[col] : r \in table} \ {<<>>}}

\* ORDER BY count DESC, col
FacetCmp(a, b) ==
  IF a[2] # b[2] THEN (IF a[2] > b[2] THEN -1 ELSE 1) ELSE TextCmp(a[1], b[1])

\* the groups in the order of the statement; no two groups tie
RECURSIVE FacetSorted(_)
FacetSorted(groups) ==
  IF groups = {} THEN <<>>
  ELSE LET first == CHOOSE g \in groups : \A h \in groups : FacetCmp(g, h) <= 0
       IN <<first>> \o FacetSorted(groups \ {first})

\* fetchall() of the facet statement; the bridge's statement ends in LIMIT 10
FacetValues(v, table, col) ==
  IF v = "bridge" THEN Slice(FacetSorted(FacetGroups(table, col)), 0, BridgeFacetLimit)
  ELSE FacetSorted(FacetGroups(table, col))

\* the section of the response for one field: the server prints the number
\* of values, the first 15 of them and "... and n more"; the bridge prints
\* the values it fetched
FacetSection(v, field, values) ==
  IF v = "bridge"
    THEN [field |-> field, unique |-> <<>>, shown |-> values, more |-> <<>>]
    ELSE [field |-> field, unique |-> <<Len(values)>>,
          shown |-> Slice(values, 0, ShownValues),
          more |-> IF Len(values) > ShownValues THEN <<Len(values) - ShownValues>>
                   ELSE <<>>]

\* "for field in fields": the statements executed and the sections written
RECURSIVE FacetLoop(_, _, _)
FacetLoop(v, table, fields) ==
  IF fields = <<>> THEN [executed |-> <<>>, sections |-> <<>>]
  ELSE LET rest == FacetLoop(v, table, Tail(fields))
           field == Head(fields)
       IN IF field \notin DOMAIN StatsMapping(v) THEN rest
          ELSE LET col == StatsMapping(v)[field]
                   values == FacetValues(v, table, col)
               IN [executed |-> <<[stmt |-> "FACET", col |-> col]>> \o rest.executed,
                   sections |-> IF values # <<>>
                                  THEN <<FacetSection(v, field, values)>> \o rest.sections
                                  ELSE rest.sections]

\* a client calls get_filter_stats: the argument lookup and get_db_connection()
CallGetFilterStats(Domain) ==
  /\ pc = "idle"
  /\ \E v \in Variants, args \in Domain :
       /\ tool' = "get_filter_stats"
       /\ variant' = v
       /\ arguments' = args
  /\ pc' = "facets" /\ conn' = "open" /\ result' = ""
  /\ UNCHANGED <<db, importVars, ghostVars, sideVars, where_conditions, params,
                 order_fields, offset, executed, total_count, products,
                 total_pages, has_next, has_previous>>

\* the stock section of the server formats MAX(stock) with "{:,}" and
\* AVG(stock) with "{:.1f}": both are None when no row has a stock, and the
\* format raises; the bridge formats the counts alone
StockSectionRaises(v, table) ==
  v # "bridge" /\ \A r \in table : r.stock = <<>>

\* the loop over the fields, the stock statement (its COUNT(*) is kept in
\* total_count), on the server the price statement, and the two close(); the
\* statements read one state of the table when no writer runs beside them.
\* When the stock section raises, the except branch returns the error text
\* in place of the sections.
ExecuteStats ==
  /\ tool = "get_filter_stats" /\ pc = "facets"
  /\ LET loop == FacetLoop(variant, store, ArgFields(variant, arguments))
         stock == Append(loop.executed, [stmt |-> "STOCK", col |-> "stock"])
     IN IF StockSectionRaises(variant, store)
          THEN /\ executed' = stock
               /\ stats' = <<>>
               /\ conn' = "failed" /\ result' = "error"
          ELSE /\ executed' = IF variant = "bridge" THEN stock
                              ELSE Append(stock, [stmt |-> "PRICE", col |-> "suggested_price"])
               /\ stats' = loop.sections
               /\ conn' = "closed" /\ result' = "ok"
  /\ total_count' = Cardinality({r \in store : r.stock # <<>>})
  /\ pc' = "done"
  /\ UNCHANGED <<db, importVars, ghostVars, other, tool, variant, arguments,
                 where_conditions, params, order_fields, offset, products,
                 total_pages, has_next, has_previous>>

\* --------------------------------------------- advanced_search_products
ArgMinStock(args) == Get(args, "min_stock", 0)
ArgCategoryFilter(args) == Get(args, "category_filter", Empty)
ArgSortBy(args) == Get(args, "sort_by", "title")
ArgAdvancedLimit(args) == Get(args, "limit", AdvancedSearchLimit)

\* search_fields; the rows of the model carry no style, which matches nothing
AdvancedSearchFields ==
  <<"sku", "style", "product_title", "product_description", "category_name",
    "subcategory_name", "color_name", "size", "warehouse", "product_status">>

\* sort_mapping.get(sort_by, "product_title")
AdvancedSortMapping ==
  [k \in {"title", "stock", "price", "category"} |->
     CASE k = "title" -> <<[col |-> <<"product_title">>, dir |-> "ASC"]>>
       [] k = "stock" -> <<[col |-> <<"stock">>, dir |-> "DESC"]>>
       [] k = "price" -> <<[col |-> <<"suggested_price">>, dir |-> "DESC NULLS LAST"]>>
       [] k = "category" -> <<[col |-> <<"category_name">>, dir |-> "ASC"],
                              [col |-> <<"product_title">>, dir |-> "ASC"]>>]

AdvancedOrder(sort_by) ==
  IF sort_by \in DOMAIN AdvancedSortMapping THEN AdvancedSortMapping[sort_by]
  ELSE <<[col |-> <<"product_title">>, dir |-> "ASC"]>>

\* search_conditions and search_params before LIMIT: the OR group over the
\* ten fields, "if min_stock > 0", "if category_filter"
AdvancedWhere(args) ==
  LET fields == [conds |-> <<[col |-> "search", op |-> "OR_FIELDS",
                              cols |-> AdvancedSearchFields,
                              n |-> Len(AdvancedSearchFields)]>>,
                 params |-> [i \in 1..Len(AdvancedSearchFields) |->
                               Wildcarded(PyStr(ArgQuery(args)))]]
      stock == IF ArgMinStock(args) > 0
                 THEN [conds |-> <<[col |-> "stock", op |-> ">=", n |-> 1]>>,
                       params |-> <<PyInt(ArgMinStock(args))>>]
                 ELSE NoFragment
      category == IF ArgCategoryFilter(args) # <<>>
                    THEN [conds |-> <<[col |-> "category_name", op |-> "ILIKE", n |-> 1]>>,
                          params |-> <<Wildcarded(PyStr(ArgCategoryFilter(args)))>>]
                    ELSE NoFragment
  IN [conds |-> fields.conds \o stock.conds \o category.conds,
      params |-> fields.params \o stock.params \o category.params]

\* SELECT ... WHERE {' AND '.join(search_conditions)} ORDER BY {sort_clause}
\* LIMIT %s, after search_params.append(limit)
AdvancedSearchQuery(conds, order, ps, limit) ==
  [where |-> conds, order |-> order, params |-> Append(ps, PyInt(limit)),
   paging |-> "LIMIT"]

\* the row lists fetchall() may return
ExecAdvancedSearch(table, stmt) ==
  LET ps == SubSeq(stmt.params, 1, Placeholders(stmt.where))
  IN {Slice(s, 0, stmt.params[Len(stmt.params)].n) :
        s \in SortedOrders(Matching(table, stmt.where, ps), stmt.order)}

\* a client calls the server's advanced_search_products: "if not query",
\* get_db_connection() and the clause lists
CallAdvancedSearch(Domain) ==
  /\ pc = "idle"
  /\ \E args \in Domain :
       /\ tool' = "advanced_search_products"
       /\ variant' = "server"
       /\ arguments' = args
       /\ IF ArgQuery(args) = <<>>
            THEN /\ pc' = "done" /\ result' = "query_required" /\ conn' = "none"
                 /\ UNCHANGED <<where_conditions, params, order_fields>>
            ELSE /\ pc' = "search" /\ result' = "" /\ conn' = "open"
                 /\ where_conditions' = AdvancedWhere(args).conds
                 /\ params' = AdvancedWhere(args).params
                 /\ order_fields' = AdvancedOrder(ArgSortBy(args))
  /\ UNCHANGED <<db, importVars, ghostVars, sideVars, offset, executed,
                 total_count, products, total_pages, has_next, has_previous>>

\* cursor.execute(search_query, search_params), fetchall() and the two
\* close(); a negative LIMIT is rejected by the store
ExecuteAdvancedSearch ==
  /\ tool = "advanced_search_products" /\ pc = "search"
  /\ LET stmt == AdvancedSearchQuery(where_conditions, order_fields, params,
                                     ArgAdvancedLimit(arguments))
     IN /\ executed' = Append(executed, stmt)
        /\ IF ArgAdvancedLimit(arguments) < 0
             THEN products' = <<>> /\ conn' = "failed" /\ result' = "error"
             ELSE /\ products' \in ExecAdvancedSearch(store, stmt)
                  /\ conn' = "closed"
                  /\ result' = IF products' = <<>> THEN "no_products" ELSE "ok"
  /\ pc' = "done"
  /\ UNCHANGED <<db, importVars, ghostVars, sideVars, tool, variant, arguments,
                 where_conditions, params, order_fields, offset, total_count,
                 total_pages, has_next, has_previous>>

\* ----------------------------------------------------------- the inputs
Keys(m) == {m[i][1] : i \in DOMAIN m}

\* the mappings of at most k entries of E, keys distinct, in insertion order
RECURSIVE FilterMaps(_, _)
FilterMaps(E, k) ==
  IF k = 0 THEN {<<>>}
  ELSE LET shorter == FilterMaps(E, k - 1) IN
       shorter \cup
       UNION {{Append(m, e) : e \in {x \in E : x[1] \notin Keys(m)}} : m \in shorter}

\* the mappings of at most k entries, all but at most one of them among the
\* companions C, the other any entry of E at any place
MixedMaps(E, C, k) ==
  IF k = 0 THEN {<<>>}
  ELSE FilterMaps(C, k) \cup
       UNION {{SubSeq(m, 1, i) \o <<e>> \o SubSeq(m, i + 1, Len(m)) :
                 i \in 0..Len(m), e \in {x \in E : x[1] \notin Keys(m)}} :
              m \in FilterMaps(C, k - 1)}

Optional(S) == {<<>>} \cup {<<x>> : x \in S}

\* paging: few filters, every page and page size, orderings with and without
\* ties, an ordering token outside the mapping
PagingEntries ==
  { <<"color__icontains", PyStr(LowerBlue)>>,
    <<"stock__gte", PyInt(0)>>,
    <<"category__exact", PyStr(Cap)>> }

PagingArguments ==
  [filters : Optional(FilterMaps(PagingEntries, MaxFilters)),
   ordering : Optional({ <<>>, << <<"-", "stock">> >>, << <<"sku">> >>,
                         << <<"bogus">> >> }),
   page : Optional(0..MaxPage),
   page_size : Optional(-1..MaxPageSize),
   search : Optional({LowerBlue})]

\* filtering: every key of the schema and one outside it, with values of the
\* key's type and the values the compiler skips, alone and among companions
UnknownKey == "brand__exact"

FilterEntries ==
  ({"category__icontains"} \X {PyStr(<<"o">>), PyStr(<<>>), PyNone})
  \cup ({"color__icontains"} \X {PyStr(LowerBlue), PyStr(<<"_">>)})
  \cup ({"title__icontains"} \X {PyStr(<<"e", "e">>)})
  \cup ({"sku__icontains"} \X {PyStr(<<"a">>)})
  \cup ({"subcategory__icontains"} \X {PyStr(<<"s">>)})
  \cup ({"category__exact"} \X {PyStr(Tops)})
  \cup ({"size__exact"} \X {PyStr(<<"s">>)})
  \cup ({"warehouse__exact"} \X {PyStr(West)})
  \cup ({"status__exact"} \X {PyStr(Active)})
  \cup ({"stock__gte", "stock__lte"} \X {PyInt(1), PyInt(2)})
  \cup ({"stock__gt"} \X {PyInt(0)})
  \cup ({"stock__lt"} \X {PyInt(3)})
  \cup ({"price__gte", "price__lte"} \X {PyInt(2)})
  \cup ({"price__gt"} \X {PyInt(1)})
  \cup ({"size__in"} \X {PyList(<<>>), PyList(<< <<"S">> >>),
                         PyList(<< <<"S">>, <<"M">> >>), PyStr(<<"S">>), PyNone})
  \cup ({UnknownKey} \X {PyStr(Red), PyNone})

CompanionEntries ==
  { <<"stock__gte", PyInt(1)>>,
    <<"stock__lte", PyInt(2)>>,
    <<"size__in", PyList(<< <<"S">>, <<"M">> >>)>> }

FilterArguments ==
  [filters : Optional(MixedMaps(FilterEntries, CompanionEntries, MaxFilters)),
   ordering : {<<>>},
   page : {<<>>},
   page_size : {<<>>},
   search : Optional({LowerBlue, <<"_">>})]

\* ordering: tokens of the mapping, bare and prefixed with a minus sign, the
\* two fields only the server maps, and a token outside every mapping
OrderTokens ==
  { <<"title">>, <<"-", "title">>, <<"-", "stock">>, <<"price">>, <<"sku">>,
    <<"warehouse">>, <<"-", "status">>, <<"bogus">>, <<"-", "bogus">> }

\* the sequences of at most k tokens
RECURSIVE Orderings(_)
Orderings(k) ==
  IF k = 0 THEN {<<>>}
  ELSE LET shorter == Orderings(k - 1) IN
       shorter \cup {Append(o, t) : o \in shorter, t \in OrderTokens}

OrderingArguments ==
  [filters : Optional({ << <<"stock__gte", PyInt(0)>> >> }),
   ordering : Optional(Orderings(MaxOrdering)),
   page : {<<>>},
   page_size : {<<>>},
   search : {<<>>}]

\* the statements' texts: filters of one, two and five placeholders, and
\* orderings inside the mapping, outside it, and holding a placeholder
PlaceholderEntries ==
  { <<"size__in", PyList(<< <<"S">>, <<"M">> >>)>>,
    <<"stock__gte", PyInt(1)>>,
    <<"color__icontains", PyStr(LowerBlue)>> }

PlaceholderArguments ==
  [filters : Optional(FilterMaps(PlaceholderEntries, MaxFilters)),
   ordering : Optional({ << <<"-", "price">> >>, << <<"bogus">> >>, << <<"%s">> >>,
                         << <<"sku">>, <<"-", "%s">> >> }),
   page : {<<>>},
   page_size : Optional({1}),
   search : Optional({LowerBlue})]

AdvancedSearchArguments ==
  [query : Optional({<<>>, <<"a">>, LowerBlue}),
   limit : Optional({-1, 1, 2}),
   min_stock : Optional({-1, 0, 1}),
   category_filter : Optional({<<>>, <<"o">>}),
   sort_by : Optional({"title", "stock", "price", "category", "bogus", "%s"})]

\* update_stock: an SKU missing, empty, unknown and known; a stock missing,
\* null, zero, negative and positive
StockArguments ==
  [sku : Optional({<<>>, <<"A", "1">>, <<"B", "1">>, <<"Z", "9">>}),
   stock : Optional({PyNone, PyInt(0), PyInt(-1), PyInt(5)})]

\* search_products: a term for each tier, a term with a wildcard, a term that
\* matches nothing and the empty term; no limit, a negative one, and limits
\* below the number of rows
SearchTerms == {<<>>, <<"a">>, <<"t">>, <<"b">>, <<"_", "e">>, <<"z">>}
SearchArguments ==
  [query : Optional(SearchTerms), limit : Optional(-1..MaxLimit)]

\* get_filter_stats: no list, an empty one, fields of the allow-lists, a
\* field only the server knows and a field no one knows
StatsArguments ==
  [fields : Optional({<<>>, <<"size">>, <<"subcategory">>, <<"bogus">>,
                      <<"size", "bogus", "category">>, <<"subcategory", "size">>})]

\* the k-th facet value, in ascending order of k
Value(k) == <<Alphabet[k]>>

\* a product whose size and subcategory are the given value
StatsRow(k, value, stock) ==
  Stamped(CsvRow(NatStr(k), Tee, <<>>, Tops, value, Red, value, stock, <<>>, East, Active), k, 1, 1)

\* tables with n distinct values, one of them on a second row or none (d = 0),
\* optionally a row without a value, and with a stock on every row or on none
StatsTables ==
  {{StatsRow(k, Value(k), IF st = 1 THEN <<k>> ELSE <<>>) : k \in 1..n}
     \cup (IF d > 0 THEN {StatsRow(n + 1, Value(d), IF st = 1 THEN <<0>> ELSE <<>>)} ELSE {})
     \cup (IF e = 1 THEN {StatsRow(n + 2, <<>>, <<>>)} ELSE {}) :
   n \in 0..MaxValues, d \in 0..MaxValues, e \in 0..1, st \in 0..1}

\* update_stock beside loads that fail and are run again: an SKU of the
\* file, a stock of zero and a positive one
WriterArguments ==
  [sku : {<< <<"A", "1">> >>}, stock : {<<PyInt(0)>>, <<PyInt(5)>>}]

\* two clients of update_stock on one SKU, with stocks that differ
TwoClientsArguments ==
  [sku : {<< <<"A", "1">> >>}, stock : {<<PyInt(5)>>, <<PyInt(0)>>}]
OtherSkus == {<<"A", "1">>}
OtherStocks == {-1, 7}

\* ------------------------------------------------- the specifications
Import == ImportRow \/ ImportFinish
Query == ExecuteCount \/ ExecutePage

\* paging under every page and page size
Next ==
  \/ Import
  \/ CallFilterProducts(PagingArguments)
  \/ CallFilterProductsAdvanced(PagingArguments)
  \/ CallNextPage
  \/ Query
  \/ Return

Spec == Init /\ [][Next]_vars

\* filtering under every filter key
NextFilters ==
  \/ Import
  \/ CallFilterProducts(FilterArguments)
  \/ CallFilterProductsAdvanced(FilterArguments)
  \/ Query
  \/ Return

SpecFilters == Init /\ [][NextFilters]_vars

\* the loader alone: statements that fail, and the load run again
NextLoad ==
  \/ ImportRow
  \/ ImportRowFails
  \/ ImportFinish
  \/ ImportFinishFails
  \/ RerunImport

SpecLoad == Init /\ [][NextLoad]_vars

\* update_stock beside the loader
NextStock ==
  \/ Import
  \/ CallUpdateStock(StockArguments)
  \/ SelectProduct
  \/ UpdateProduct
  \/ StoreFailure
  \/ Return

SpecStock == Init /\ [][NextStock]_vars

\* search_products beside the loader
NextSearch ==
  \/ Import
  \/ CallSearchProducts(SearchArguments)
  \/ ExecuteSearch
  \/ Return

SpecSearch == Init /\ [][NextSearch]_vars

\* get_filter_stats on a table of many facet values, with no load running
InitStats ==
  /\ store \in StatsTables
  /\ now = 2 /\ next_id = MaxValues + 3
  /\ row_num = 0 /\ batch_data = <<>> /\ processed_rows = 0 /\ error_rows = 0
  /\ import_pc = "run" /\ aborted = FALSE /\ runs = 1 /\ start_store = store
  /\ import_return = <<>>
  /\ Idle
  /\ other = OtherIdle

NextStats ==
  \/ CallGetFilterStats(StatsArguments)
  \/ ExecuteStats
  \/ Return

SpecStats == InitStats /\ [][NextStats]_vars

\* two update_stock calls at once, beside the loader
NextTwoClients ==
  \/ Import
  \/ CallUpdateStock(TwoClientsArguments)
  \/ SelectProduct
  \/ UpdateProduct
  \/ Return
  \/ OtherCall(OtherSkus, OtherStocks)
  \/ OtherSelect
  \/ OtherUpdate
  \/ OtherReturn

SpecTwoClients == Init /\ [][NextTwoClients]_vars

\* every writer: loads that fail and are run again, and update_stock calls
\* that reach their UPDATE
NextWrites ==
  \/ NextLoad
  \/ CallUpdateStock(WriterArguments)
  \/ SelectProduct
  \/ UpdateProduct
  \/ Return

SpecWrites == Init /\ [][NextWrites]_vars

\* calls of the advertised tools
NextDispatch ==
  \/ Import
  \/ CallAdvertisedTool
  \/ Return

SpecDispatch == Init /\ [][NextDispatch]_vars

\* the statements of the three query builders
NextPlaceholders ==
  \/ Import
  \/ CallFilterProducts(PlaceholderArguments)
  \/ CallFilterProductsAdvanced(PlaceholderArguments)
  \/ CallAdvancedSearch(AdvancedSearchArguments)
  \/ Query
  \/ ExecuteAdvancedSearch
  \/ Return

SpecPlaceholders == Init /\ [][NextPlaceholders]_vars

\* ordering under every sequence of tokens
NextOrdering ==
  \/ Import
  \/ CallFilterProducts(OrderingArguments)
  \/ CallFilterProductsAdvanced(OrderingArguments)
  \/ Query
  \/ Return

SpecOrdering == Init /\ [][NextOrdering]_vars

\* ------------------------------------------------------------ the claims
filters == ArgFilters(arguments)
search == ArgSearch(arguments)
Returned == pc = "done" /\ result = "ok"

\* the least q with q * b >= a
Ceiling(a, b) == CHOOSE q \in 0..a : q * b >= a /\ \A r \in 0..a : r * b >= a => q <= r
Min(a, b) == IF a < b THEN a ELSE b
Max(a, b) == IF a > b THEN a ELSE b

\* C1: for page >= 1 and page_size >= 1 the pagination metadata of a returned
\* call satisfies total_pages = ceil(total_count / page_size),
\* has_next = (page < total_pages) and has_previous = (page > 1).
C1_PaginationMetadata ==
  (Returned /\ page >= 1 /\ page_size >= 1) =>
     /\ total_count >= 0
     /\ total_pages = Ceiling(total_count, page_size)
     /\ has_next = (page < total_pages)
     /\ has_previous = (page > 1)

C1_Witness ==
  /\ Returned /\ page = 1 /\ page_size = 2 /\ total_count = 3
  /\ total_pages = 2 /\ has_next /\ ~has_previous

\* C2 as stated: when no row matches, for any requested page and any
\* page_size > 0 the call returns without error, with total_pages = 0,
\* has_next = false, has_previous = false and no rows.
C2_Original ==
  (pc = "done" /\ total_count = 0 /\ ~raced /\ page >= 1 /\ page_size > 0
     /\ ValidOrder(OrderClause(order_fields))) =>
     /\ result = "ok"
     /\ total_pages = 0 /\ ~has_next /\ ~has_previous
     /\ products = <<>>

\* C2 amended: when no row matches, for any page >= 1 and any page_size > 0 the
\* call returns without error, with total_pages = 0, has_next = false, no rows,
\* and has_previous = (page > 1): false on page 1 only.
C2_EmptyResult ==
  (pc = "done" /\ total_count = 0 /\ ~raced /\ page >= 1 /\ page_size > 0
     /\ ValidOrder(OrderClause(order_fields))) =>
     /\ result = "ok"
     /\ total_pages = 0 /\ ~has_next /\ has_previous = (page > 1)
     /\ products = <<>>

C2_Witness ==
  /\ Returned /\ total_count = 0 /\ ~raced /\ store # {} /\ page = 2
  /\ page_size = 1 /\ total_pages = 0 /\ has_previous /\ products = <<>>

\* C3: the COUNT statement and the page SELECT of a call carry the same WHERE
\* clause and the same parameters in the same order; the page statement adds
\* only page_size and offset, in that order, after all predicate parameters.
C3_SamePredicates ==
  Len(executed) = 2 =>
     /\ executed[2].where = executed[1].where
     /\ Len(executed[1].params) = Placeholders(executed[1].where)
     /\ SubSeq(executed[2].params, 1, Len(executed[1].params)) = executed[1].params
     /\ Len(executed[2].params) = Len(executed[1].params) + 2
     /\ executed[2].params[Len(executed[1].params) + 1] = PyInt(page_size)
     /\ executed[2].params[Len(executed[1].params) + 2] = PyInt((page - 1) * page_size)

C3_Witness ==
  /\ Len(executed) = 2 /\ variant = "bridge"
  /\ Len(executed[1].where) = 3 /\ Len(executed[1].params) = 7
  /\ page_size = 2

\* C4 as stated: the page statement is never sent with a negative OFFSET or
\* with a page size below 1.
C4_Claim ==
  Len(executed) = 2 =>
     /\ StmtOffset(executed[2]) >= 0
     /\ StmtLimit(executed[2]) >= 1

\* C5: with no batch committed since the COUNT, for page >= 1 and
\* page_size >= 1 the page holds min(page_size, max(0, total_count - offset))
\* rows, offset = (page - 1) * page_size, and they are the rows from position
\* offset on of an ordering of the match set; a page beyond the last is empty,
\* with the same total_count and total_pages, and is no error.
C5_PageSlice ==
  (pc = "done" /\ ~raced /\ page >= 1 /\ page_size >= 1
     /\ ValidOrder(OrderClause(order_fields))) =>
     LET start == (page - 1) * page_size
         size == Min(page_size, Max(0, total_count - start))
         matches == Matching(store, where_conditions, params)
     IN /\ result = "ok"
        /\ total_count = Cardinality(matches)
        /\ total_pages = Ceiling(total_count, page_size)
        /\ Len(products) = size
        /\ \E s \in SortedOrders(matches, OrderClause(order_fields)) :
             \A i \in 1..size : products[i] = s[start + i]

C5_Witness ==
  /\ Returned /\ ~raced /\ page = 3 /\ page_size = 2 /\ total_count = 4
  /\ total_pages = 2 /\ products = <<>>

StoreSkus == {r.sku : r \in store}

\* no two rows of the table tie on the ordering keys
TotalOrder(table, order) ==
  \A r1, r2 \in table : r1 # r2 => OrderCmp(r1, r2, order) # 0

\* the client has walked every page from the first to the last
SweepDone == Returned /\ sweep_ok /\ ~raced /\ ~has_next

\* C6 as stated: with an empty filters mapping and no search term there is no
\* WHERE clause, total_count is the number of rows in the store, and the pages
\* taken together contain every row.
C6_Original ==
  (filters = <<>> /\ search = <<>>) =>
     /\ pc # "idle" => where_conditions = <<>>
     /\ (Returned /\ ~raced) => total_count = Cardinality(store)
     /\ SweepDone => seen = StoreSkus

\* What remains of C6 when no two rows tie on the ordering keys: no WHERE
\* clause, total_count is the number of rows in the store, and the pages taken
\* together contain every row.  The rows lost under C6_Original are lost to
\* ties alone.
C6_AllRows ==
  (filters = <<>> /\ search = <<>>) =>
     /\ pc # "idle" => where_conditions = <<>>
     /\ (Returned /\ ~raced) => total_count = Cardinality(store)
     /\ (SweepDone /\ TotalOrder(store, OrderClause(order_fields))) =>
          seen = StoreSkus

C6_Witness ==
  /\ filters = <<>> /\ search = <<>> /\ SweepDone
  /\ TotalOrder(store, OrderClause(order_fields))
  /\ page = 2 /\ page_size = 2 /\ Cardinality(store) = 4 /\ seen = StoreSkus

\* the mapping without its i-th entry
Without(m, i) == SubSeq(m, 1, i - 1) \o SubSeq(m, i + 1, Len(m))
Compiled == [conds |-> where_conditions, params |-> params]

\* value is null or the empty string, or the key has no branch in the compiler
Ignorable(v, entry) ==
  \/ entry[2].t = "none"
  \/ entry[2].t = "str" /\ entry[2].s = <<>>
  \/ entry[1] \notin DOMAIN FilterTable(v)

\* C7: a filter entry whose value is null or the empty string, or whose key is
\* not a supported key, adds no predicate and no parameter and causes no
\* error: the compiled predicates and parameters equal those compiled from the
\* mapping without that entry.
C7_IgnoredEntries ==
  pc # "idle" =>
    \A i \in DOMAIN filters :
      Ignorable(variant, filters[i]) =>
        /\ Compiled = CompileWhere(variant, Without(filters, i), search)
        /\ pc = "done" => result = "ok"

C7_Witness ==
  /\ Returned /\ Len(filters) = 2
  /\ filters[1] = <<UnknownKey, PyStr(Red)>>
  /\ filters[2][1] = "stock__gte" /\ filters[2][2].t = "int"
  /\ Len(where_conditions) = 1 /\ Len(params) = 1

\* C8: a size__in filter whose value is an empty list or no list compiles like
\* the mapping without it (no row is excluded by it); a list of n > 0 elements
\* adds one IN predicate with n placeholders at the entry's place, and the n
\* elements as parameters in list order.
C8_SizeIn ==
  pc # "idle" =>
    \A i \in DOMAIN filters :
      filters[i][1] = "size__in" =>
        LET v == filters[i][2]
            before == CompileFilters(variant, SubSeq(filters, 1, i - 1))
            after == CompileWhere(variant, SubSeq(filters, i + 1, Len(filters)), search)
        IN IF v.t = "list" /\ Len(v.l) > 0
             THEN /\ where_conditions =
                       before.conds
                       \o <<[col |-> "size", op |-> "IN", n |-> Len(v.l)]>>
                       \o after.conds
                  /\ params = before.params
                              \o [j \in 1..Len(v.l) |-> PyStr(v.l[j])]
                              \o after.params
             ELSE /\ where_conditions = before.conds \o after.conds
                  /\ params = before.params \o after.params
                  /\ (Returned /\ ~raced /\ Len(filters) = 1 /\ search = <<>>) =>
                       total_count = Cardinality(store)

C8_Witness ==
  /\ Returned /\ Len(filters) = 2
  /\ filters[1][1] = "stock__gte" /\ filters[1][2].t = "int"
  /\ filters[2] = <<"size__in", PyList(<< <<"S">>, <<"M">> >>)>>
  /\ where_conditions[2] = [col |-> "size", op |-> "IN", n |-> 2]
  /\ Len(params) = 3 /\ params[2] = PyStr(<<"S">>) /\ params[3] = PyStr(<<"M">>)

\* what <field>__<op> = v asks of a row; NULL compares with nothing
Compares(number, op, v) ==
  /\ number # <<>>
  /\ CASE op = "gte" -> number[1] >= v
       [] op = "lte" -> number[1] <= v
       [] op = "gt" -> number[1] > v
       [] op = "lt" -> number[1] < v

NumericFilter(key) ==
  CASE key = "stock__gte" -> [field |-> "stock", op |-> "gte"]
    [] key = "stock__lte" -> [field |-> "stock", op |-> "lte"]
    [] key = "stock__gt" -> [field |-> "stock", op |-> "gt"]
    [] key = "stock__lt" -> [field |-> "stock", op |-> "lt"]
    [] key = "price__gte" -> [field |-> "suggested_price", op |-> "gte"]
    [] key = "price__lte" -> [field |-> "suggested_price", op |-> "lte"]
    [] key = "price__gt" -> [field |-> "suggested_price", op |-> "gt"]
    [] key = "price__lt" -> [field |-> "suggested_price", op |-> "lt"]

StockFilterKeys == {"stock__gte", "stock__lte", "stock__gt", "stock__lt"}
PriceRangeKeys == {"price__gte", "price__lte"}
PriceStrictKeys == {"price__gt", "price__lt"}

\* the row passes every supplied numeric filter whose key is in K
Passes(K, row) ==
  \A i \in DOMAIN filters :
    (filters[i][1] \in K /\ filters[i][2].t = "int") =>
      Compares(row[NumericFilter(filters[i][1]).field],
               NumericFilter(filters[i][1]).op, filters[i][2].n)

OnlyFilters(K) ==
  /\ search = <<>>
  /\ \A i \in DOMAIN filters : filters[i][1] \in K /\ filters[i][2].t = "int"

\* C9 as stated: for stock and price and each of gte, lte, gt, lt, every
\* returned row passes every supplied numeric filter.
C9_Original ==
  (Returned /\ ~raced) =>
    \A n \in DOMAIN products :
      Passes(StockFilterKeys \cup PriceRangeKeys \cup PriceStrictKeys, products[n])

\* C9 amended: for stock with gte, lte, gt, lt and for price with gte, lte,
\* every returned row passes every supplied numeric filter, several on one
\* field included, and with nothing but such filters the result is exactly the
\* rows that pass them all; price__gt and price__lt are not filter keys.
C9_NumericFilters ==
  (Returned /\ ~raced) =>
    /\ \A n \in DOMAIN products :
         Passes(StockFilterKeys \cup PriceRangeKeys, products[n])
    /\ OnlyFilters(StockFilterKeys \cup PriceRangeKeys) =>
         /\ Skus(products) =
              {r.sku : r \in {x \in store : Passes(StockFilterKeys \cup PriceRangeKeys, x)}}
         /\ total_count = Len(products)

C9_Witness ==
  /\ Returned /\ ~raced /\ Cardinality(store) = 4 /\ search = <<>>
  /\ Len(filters) = 2
  /\ filters[1] = <<"stock__lte", PyInt(2)>>
  /\ filters[2] = <<"stock__gte", PyInt(1)>>
  /\ Len(products) = 2

\* text contains term, without regard to case
Contains(text, term) ==
  \E i \in 0..(Len(text) - Len(term)) :
    \A j \in 1..Len(term) : Lower(text[i + j]) = Lower(term[j])

ContainsTerm(row, term) ==
  \E col \in {"product_title", "product_description", "sku", "category_name",
              "color_name"} : Contains(row[col], term)

\* C10 as stated: the rows matched with filters F and term s are exactly the
\* rows matched by F that contain s, without regard to case, in title,
\* description, SKU, category or color; the overlay is one predicate after all
\* filter predicates, with five parameters.
C10_Claim ==
  (Returned /\ ~raced /\ search # <<>>) =>
    LET f == CompileFilters(variant, filters) IN
      /\ Skus(products) =
           {r.sku : r \in {x \in Matching(store, f.conds, f.params) :
                             ContainsTerm(x, search)}}
      /\ Len(where_conditions) = Len(f.conds) + 1
      /\ SubSeq(where_conditions, 1, Len(f.conds)) = f.conds
      /\ Len(params) = Len(f.params) + SearchColumns

ordering == ArgOrdering(arguments)

\* the token without its minus sign
TokenField(token) ==
  IF token # <<>> /\ Head(token) = "-" THEN Tail(token) ELSE token

\* the token names a field of the variant's allow-list
AllowListed(v, token) ==
  Len(TokenField(token)) = 1 /\ TokenField(token)[1] \in DOMAIN FieldMapping(v)

\* C11: for an ordering of allow-listed tokens the ORDER BY list has one clause
\* per token, in input order, naming the token's mapped column, DESC iff the
\* token starts with '-' and ASC otherwise; an empty ordering orders by
\* product title ascending.
C11_OrderingClauses ==
  (pc # "idle" /\ \A i \in DOMAIN ordering : AllowListed(variant, ordering[i])) =>
     /\ Len(order_fields) = Len(ordering)
     /\ \A i \in DOMAIN ordering :
          /\ order_fields[i].col = <<FieldMapping(variant)[TokenField(ordering[i])[1]]>>
          /\ order_fields[i].dir = IF Head(ordering[i]) = "-" THEN "DESC" ELSE "ASC"
     /\ Len(executed) = 2 =>
          executed[2].order =
            IF ordering = <<>>
              THEN <<[col |-> <<"product_title">>, dir |-> "ASC"]>>
              ELSE order_fields

C11_Witness ==
  /\ Returned /\ variant = "bridge"
  /\ ordering = << <<"-", "stock">>, <<"title">> >>
  /\ executed[2].order = << [col |-> <<"stock">>, dir |-> "DESC"],
                            [col |-> <<"product_title">>, dir |-> "ASC"] >>
  /\ Len(products) = 3 /\ products[1].stock = <<3>> /\ products[3].stock = <<0>>

\* the storage columns of the variant's allow-list
AllowedColumns(v) == {FieldMapping(v)[f] : f \in DOMAIN FieldMapping(v)}

\* C12 as stated: every column reference of the ORDER BY clause is a storage
\* column of the allow-list; a token outside it is never copied into the query.
C12_Claim ==
  Len(executed) = 2 =>
    \A i \in DOMAIN executed[2].order :
      /\ Len(executed[2].order[i].col) = 1
      /\ executed[2].order[i].col[1] \in AllowedColumns(variant)

\* the columns the loader writes, without id and the two timestamps
Business(r) == [c \in TableColumns |-> r[c]]

\* the tuples of the file's rows that have an SKU, in file order
RECURSIVE ValidTuples(_)
ValidTuples(rows) ==
  IF rows = <<>> THEN <<>>
  ELSE LET data == PrepareRow(Head(rows))
       IN (IF data.sku = <<>> THEN <<>> ELSE <<data>>) \o ValidTuples(Tail(rows))

\* what a table holding the rows `before` holds once the tuples are applied:
\* for each SKU of the tuples its last tuple, and the other rows as they were
Applied(before, tuples) ==
  {tuples[i] : i \in {k \in DOMAIN tuples :
                        \A j \in DOMAIN tuples : j > k => tuples[j].sku # tuples[k].sku}}
  \cup {b \in before : \A i \in DOMAIN tuples : tuples[i].sku # b.sku}

BusinessRows(table) == {Business(r) : r \in table}
FullLoad == Applied({}, ValidTuples(CsvFile))

\* C18: the table always holds exactly the batches committed so far, each
\* whole: the first processed_rows tuples of the file applied to the table the
\* run started from.  While the run goes on, and when it failed, that is a
\* whole number of batches: of the batch whose write failed and of the later
\* ones no row is visible, and the earlier batches stay committed.
C18_BatchUnits ==
  /\ BusinessRows(store) =
       Applied(BusinessRows(start_store),
               SubSeq(ValidTuples(CsvFile), 1, processed_rows))
  /\ import_pc # "done" => processed_rows % BatchSize = 0
  /\ (aborted \/ import_pc = "failed") =>
       processed_rows < Len(ValidTuples(CsvFile))

C18_Witness ==
  /\ import_pc = "failed" /\ runs = 1
  /\ processed_rows = BatchSize
  /\ Cardinality(store) = BatchSize
  /\ Len(batch_data) > BatchSize

\* C19: a completed run leaves the table holding the file's rows, whatever the
\* table held of them before (a full load or one that stopped partway); on a
\* table already fully loaded it leaves the row count and every attribute of
\* every row but updated_at as they were.
C19_Idempotent ==
  import_pc = "done" =>
    /\ BusinessRows(store) = FullLoad
    /\ Cardinality(store) = Cardinality(FullLoad)
    /\ BusinessRows(start_store) = FullLoad =>
         /\ Cardinality(store) = Cardinality(start_store)
         /\ \A r \in store :
              \E o \in start_store : r = [o EXCEPT !.updated_at = r.updated_at]

C19_Witness ==
  /\ import_pc = "done" /\ runs = 2
  /\ BusinessRows(start_store) = FullLoad
  /\ Cardinality(store) = 4
  /\ \A r \in store : \E o \in start_store :
       r.sku = o.sku /\ r.id = o.id /\ r.updated_at > o.updated_at

\* the tuples of the batch that the step commits
CommittedBatch ==
  IF row_num' = row_num THEN batch_data
  ELSE Append(batch_data, PrepareRow(CsvFile[row_num + 1]))

\* C20: a load step that changes the table leaves every existing row in it
\* with its id, sku and created_at; a row whose SKU the batch carries gets the
\* attributes of the batch's last tuple for it and the transaction's
\* timestamp as updated_at, which is later than the one it had; a row whose
\* SKU the batch does not carry is untouched.
C20_UpsertFrame ==
  [][store' # store =>
       \A r \in store :
         \E n \in store' :
           /\ n.sku = r.sku /\ n.id = r.id /\ n.created_at = r.created_at
           /\ \A m \in store' : m.sku = r.sku => m = n
           /\ IF \E i \in DOMAIN CommittedBatch : CommittedBatch[i].sku = r.sku
                THEN /\ Business(n) \in Applied({}, CommittedBatch)
                     /\ n.updated_at = now
                     /\ n.updated_at > r.updated_at
                ELSE n = r]_vars

C20_Witness ==
  \E r \in store :
    /\ r.sku = <<"A", "1">> /\ r.stock = <<3>>
    /\ r.id = 1 /\ r.created_at = 1 /\ r.updated_at = 3

\* ------------------------------------------------- claims on update_stock
\* the existence check of update_stock finishes without a store failure
CheckCompletes ==
  tool = "update_stock" /\ pc = "select" /\ pc' # "select" /\ result' # "error"

\* C14: when no row of the table has the SKU of the call, update_stock
\* returns the not-found message, has executed the SELECT alone and no
\* UPDATE, closes its connection and leaves the table as it was.
C14_NotFound ==
  [][(CheckCompletes /\ \A r \in store : r.sku # ArgSku(arguments)) =>
       /\ pc' = "done" /\ result' = "not_found"
       /\ \A i \in DOMAIN executed' : executed'[i].stmt = "SELECT"
       /\ Len(executed') = 1
       /\ conn' = "closed"
       /\ store' = store /\ now' = now]_vars

C14_Witness ==
  /\ tool = "update_stock" /\ pc = "done" /\ result = "not_found"
  /\ ArgSku(arguments) = <<"Z", "9">>
  /\ Cardinality(store) = 4
  /\ Len(executed) = 1

\* C15: for an SKU the table holds and a stock that is not null, a call the
\* store does not fail sets the stock of that row to the value given, zero
\* and negative values included, sets its updated_at to the time of the
\* statement, leaves every other column of it and every other row as they
\* were, and reports the title the existence check read.
C15_StockFrame ==
  [][(tool = "update_stock" /\ pc = "update" /\ pc' # "update" /\ result' # "error") =>
       /\ pc' = "done" /\ result' = "ok" /\ conn' = "closed"
       /\ products' = products /\ Len(products) = 1
       /\ products[1].sku = ArgSku(arguments)
       /\ \E r \in store : r.sku = ArgSku(arguments)
       /\ Cardinality(store') = Cardinality(store)
       /\ \A r \in store :
            IF r.sku = ArgSku(arguments)
              THEN [r EXCEPT !.stock = <<ArgStock(arguments).n>>,
                             !.updated_at = now] \in store'
              ELSE r \in store']_vars

C15_Witness ==
  /\ tool = "update_stock" /\ pc = "done" /\ result = "ok"
  /\ ArgStock(arguments) = PyInt(-1)
  /\ \E r \in store :
       /\ r.sku = ArgSku(arguments) /\ r.stock = <<-1>>
       /\ r.updated_at > r.created_at
  /\ \E r \in store : r.sku # ArgSku(arguments) /\ r.updated_at = r.created_at

\* C16: a call without an SKU, or with an empty one, returns "SKU is
\* required"; a call with an SKU and a stock that is missing or null returns
\* "Stock amount is required"; neither opens a connection or executes a
\* statement. Any other call, one with stock 0 included, goes on to the
\* existence check.
C16_Validation ==
  [][(pc = "idle" /\ tool' = "update_stock") =>
       IF ArgSku(arguments') = <<>>
         THEN /\ pc' = "done" /\ result' = "sku_required"
              /\ conn' = "none" /\ executed' = <<>> /\ store' = store
         ELSE IF ArgStock(arguments') = PyNone
           THEN /\ pc' = "done" /\ result' = "stock_required"
                /\ conn' = "none" /\ executed' = <<>> /\ store' = store
           ELSE pc' = "select" /\ conn' = "open"]_vars

C16_Witness ==
  /\ tool = "update_stock" /\ pc = "update"
  /\ ArgStock(arguments) = PyInt(0)
  /\ \E r \in store : r.sku = ArgSku(arguments) /\ r.stock # <<0>>

\* ------------------------------------------- claim on connection release
\* C17: no tool operation returns while the connection it opened is still
\* open: at every return the connection has been closed, and a transaction
\* that a failing statement left open has been rolled back before that.
C17_Released ==
  pc = "done" => conn \in {"none", "closed"}

\* ---------------------------------------------- claim on search_products
\* text matches the term of the call, as the statement matches it
MatchesTerm(text) == ILike(text, SearchPattern(ArgQuery(arguments)))

\* the tier of a row: 1 when its SKU matches, 2 when its title matches and
\* its SKU does not, 3 when its category matches and neither SKU nor title
\* does, 4 for every other row
Tier(row) ==
  CASE MatchesTerm(row.sku) -> 1
    [] ~MatchesTerm(row.sku) /\ MatchesTerm(row.product_title) -> 2
    [] ~MatchesTerm(row.sku) /\ ~MatchesTerm(row.product_title)
         /\ MatchesTerm(row.category_name) -> 3
    [] OTHER -> 4

\* r1 may stand before r2: a lower tier, or the same tier and no later title
MayPrecede(r1, r2) ==
  \/ Tier(r1) < Tier(r2)
  \/ Tier(r1) = Tier(r2) /\ TextCmp(r1.product_title, r2.product_title) <= 0

\* the rows of the table that match the term in one of the six columns
Matched ==
  {r \in store : \E col \in {"product_title", "product_description", "sku",
                             "category_name", "color_name", "subcategory_name"} :
                   MatchesTerm(r[col])}

\* C13: in the list search_products returns, rows are in tier order (SKU
\* match, then title match, then category match, then the other matches) and
\* in ascending title order within a tier; the list holds min(limit, matches)
\* distinct matching rows, and every match the limit cut off ranks no
\* earlier than every row returned.
C13_Ranking ==
  [][(tool = "search_products" /\ pc = "search" /\ pc' = "done" /\ result' # "error") =>
       /\ \A i, j \in DOMAIN products' : i < j =>
            /\ products'[i] # products'[j]
            /\ MayPrecede(products'[i], products'[j])
       /\ \A i \in DOMAIN products' : products'[i] \in Matched
       /\ Len(products') = Min(ArgLimit(variant, arguments), Cardinality(Matched))
       /\ \A u \in Matched :
            (\A i \in DOMAIN products' : products'[i] # u) =>
               \A i \in DOMAIN products' : MayPrecede(products'[i], u)]_vars

C13_Witness ==
  /\ tool = "search_products" /\ pc = "done" /\ result = "ok"
  /\ ArgQuery(arguments) = <<"a">> /\ ArgLimit(variant, arguments) = 3
  /\ Cardinality(Matched) = 4
  /\ Len(products) = 3
  /\ products[1].sku = <<"A", "2">> /\ products[2].sku = <<"A", "1">>
  /\ products[3].sku = <<"B", "1">> /\ products[3].product_title = Cap

\* ------------------------------------------------- claims on bad rows
\* a numeric cell that holds text which is no number
Unparsable(cell) == Strip(cell) # <<>> /\ ParseNumber(Strip(cell)) = <<>>

EmptySkuRows == {i \in DOMAIN CsvFile : CsvFile[i].sku = <<>>}
UnparsableRows ==
  {i \in DOMAIN CsvFile :
     Unparsable(CsvFile[i].stock) \/ Unparsable(CsvFile[i].suggested_price)}

\* row i is the file's last row for its SKU
LastForSku(i) == \A j \in DOMAIN CsvFile : j > i => CsvFile[j].sku # CsvFile[i].sku

\* C21: the loader never stores a row with an empty SKU and counts each such
\* row as an error. A row with an unparsable numeric cell is not an error: a
\* run that completes has counted the rows with an empty SKU and no others
\* as errors, and has stored every other row, with NULL in the column of
\* each unparsable cell.
C21_BadRows ==
  /\ \A r \in store : r.sku # <<>>
  /\ import_pc = "done" =>
       /\ error_rows = Cardinality(EmptySkuRows)
       /\ processed_rows = Len(CsvFile) - Cardinality(EmptySkuRows)
       /\ \A i \in UnparsableRows \ EmptySkuRows :
            LastForSku(i) =>
              \E r \in store :
                /\ r.sku = CsvFile[i].sku
                /\ Unparsable(CsvFile[i].stock) => r.stock = <<>>
                /\ Unparsable(CsvFile[i].suggested_price) => r.suggested_price = <<>>

C21_Witness ==
  /\ import_pc = "done" /\ runs = 1
  /\ error_rows = 1 /\ processed_rows = 5
  /\ \E r \in store : r.sku = <<"B", "2">> /\ r.stock = <<>>

\* C21 as stated: a row with an empty SKU or an unparsable numeric cell is
\* counted as an error and is not stored.
C21_Original ==
  import_pc = "done" =>
    /\ error_rows = Cardinality(EmptySkuRows \cup UnparsableRows)
    /\ \A i \in EmptySkuRows \cup UnparsableRows :
         \A r \in store : r.sku # CsvFile[i].sku

\* C22: one bad row never aborts the load: a run that has ended has ended
\* normally, returns its counts of processed and error rows, which account
\* for every row of the file, and has committed every valid row but those
\* of the one batch that held the bad row.
C22_Claim ==
  import_pc # "run" =>
    /\ import_pc = "done"
    /\ import_return = <<processed_rows, error_rows>>
    /\ processed_rows + error_rows = Len(CsvFile)
    /\ Cardinality(FullLoad \ BusinessRows(store)) <= BatchSize

\* ---------------------------------------------- claim on get_filter_stats
StatsReturned == tool = "get_filter_stats" /\ pc = "done"

\* the non-empty distinct values of a column and the rows that hold one
DistinctValues(col) == {r[col] : r \in store} \ {<<>>}
RowCount(col, value) == Cardinality({r \in store : r[col] = value})

\* group g stands before group h: a higher count, or the same count and a
\* lower value
RanksBefore(g, h) == g[2] > h[2] \/ (g[2] = h[2] /\ TextCmp(g[1], h[1]) < 0)

\* the requested fields that are in the allow-list, in the order requested
KnownFields(allow) ==
  LET Known(f) == f \in allow
  IN SelectSeq(ArgFields(variant, arguments), Known)

\* those of them whose column has a value
ListedFields(allow) ==
  LET HasValue(f) == DistinctValues(ServerStatsMapping[f]) # {}
  IN SelectSeq(KnownFields(allow), HasValue)

\* a section lists the first values of its column, at most limit of them, in
\* ranking order, each with its row count, and, when asked for, the number
\* of values and the number left out
SectionAsClaimed(sec, limit, remainder) ==
  LET col == ServerStatsMapping[sec.field]
      n == Cardinality(DistinctValues(col))
  IN /\ Len(sec.shown) = Min(limit, n)
     /\ \A i \in DOMAIN sec.shown :
          /\ sec.shown[i][1] \in DistinctValues(col)
          /\ sec.shown[i][2] = RowCount(col, sec.shown[i][1])
     /\ \A i, j \in DOMAIN sec.shown : i < j => RanksBefore(sec.shown[i], sec.shown[j])
     /\ \A v \in DistinctValues(col) :
          (\A i \in DOMAIN sec.shown : sec.shown[i][1] # v) =>
             \A i \in DOMAIN sec.shown : RanksBefore(sec.shown[i], <<v, RowCount(col, v)>>)
     /\ sec.more = IF remainder /\ n > limit THEN <<n - limit>> ELSE <<>>

\* one facet statement per requested field of the allow-list and none for
\* any other field, and one section per field that has a value
FacetsAsClaimed(allow, limit, remainder) ==
  /\ Len(executed) > Len(KnownFields(allow))
  /\ \A i \in DOMAIN executed :
       IF i <= Len(KnownFields(allow))
         THEN /\ executed[i].stmt = "FACET"
              /\ executed[i].col = ServerStatsMapping[KnownFields(allow)[i]]
         ELSE executed[i].stmt # "FACET"
  /\ Len(stats) = Len(ListedFields(allow))
  /\ \A i \in DOMAIN stats :
       /\ stats[i].field = ListedFields(allow)[i]
       /\ SectionAsClaimed(stats[i], limit, remainder)

\* What holds of get_filter_stats: a call that does not end in the except
\* branch does as C23 says on the server, with the allow-list category,
\* subcategory, color, size, warehouse, status, the first 15 values and the
\* remainder count; on the bridge the allow-list has no subcategory, the
\* first 10 values of the same ranking are listed and no remainder is
\* reported. The server's call ends in the except branch exactly when no row
\* of the table has a stock.
C23_Facets ==
  StatsReturned =>
    /\ result = "error" <=> (variant = "server" /\ \A r \in store : r.stock = <<>>)
    /\ result # "error" =>
         IF variant = "bridge"
           THEN FacetsAsClaimed({"category", "color", "size", "warehouse", "status"},
                                10, FALSE)
           ELSE FacetsAsClaimed({"category", "subcategory", "color", "size",
                                 "warehouse", "status"}, 15, TRUE)

C23_Witness ==
  /\ StatsReturned /\ variant = "server"
  /\ arguments.fields = << <<"size", "bogus", "category">> >>
  /\ Cardinality(DistinctValues("size")) = 17
  /\ Len(executed) = 4 /\ Len(stats) = 2
  /\ stats[1].field = "size" /\ stats[1].unique = <<17>>
  /\ Len(stats[1].shown) = 15 /\ stats[1].more = <<2>>
  /\ stats[1].shown[1] = <<Value(3), 2>> /\ stats[1].shown[2] = <<Value(1), 1>>
  /\ stats[2].shown = << <<Tops, 18>> >>

\* C23, of the server: for each requested field of the allow-list the
\* response lists the non-empty distinct values with their row counts, by
\* count descending then value ascending, the first 15 and a remainder of
\* (distinct values - 15); a field outside the allow-list gets no statement.
C23_Claim ==
  (StatsReturned /\ variant = "server") =>
    FacetsAsClaimed({"category", "subcategory", "color", "size", "warehouse", "status"},
                    15, TRUE)

\* ------------------------------------- claim on concurrent update_stock
\* the row of an SKU in a table
RowOf(table, sku) == CHOOSE r \in table : r.sku = sku

\* the step is the committed UPDATE of the first client, of the second
FirstCommits == tool = "update_stock" /\ pc = "update" /\ pc' = "done"
OtherCommits == other.pc = "update" /\ other'.pc = "done"

\* C24: two update_stock calls on an existing SKU both succeed however their
\* existence checks and updates interleave: a check that finds the row leads
\* to the UPDATE whatever the other call has done, the row is still there
\* when the UPDATE runs, every UPDATE ends with success and leaves its own
\* value in the row, and between two UPDATEs no step of either call changes
\* the table; so the row holds the value of the UPDATE that committed last.
C24_LastWriterWins ==
  /\ [](/\ (tool = "update_stock" /\ pc = "update") =>
             \E r \in store : r.sku = ArgSku(arguments)
        /\ other.pc = "update" => \E r \in store : r.sku = other.sku
        /\ \A r \in store :
             (other.result = "ok" /\ r.sku = other.sku /\ r.updated_at = other.at) =>
                r.stock = <<other.stock>>)
  /\ [][/\ FirstCommits =>
             /\ result' = "ok"
             /\ RowOf(store', ArgSku(arguments)).stock = <<ArgStock(arguments).n>>
        /\ OtherCommits =>
             /\ other'.result = "ok"
             /\ RowOf(store', other.sku).stock = <<other.stock>>
        /\ (tool = "update_stock" /\ pc = "select" /\ pc' # "select"
              /\ \E r \in store : r.sku = ArgSku(arguments)) => pc' = "update"
        /\ (other.pc = "select" /\ other'.pc # "select"
              /\ \E r \in store : r.sku = other.sku) => other'.pc = "update"
        /\ store' # store =>
             FirstCommits \/ OtherCommits \/ row_num' # row_num \/ import_pc' # import_pc
       ]_vars

\* the second call committed between the check and the UPDATE of the first
C24_Witness ==
  /\ tool = "update_stock" /\ pc = "done" /\ result = "ok"
  /\ other.pc = "done" /\ other.result = "ok"
  /\ other.sku = ArgSku(arguments)
  /\ other.stock = 7 /\ ArgStock(arguments) = PyInt(5)
  /\ Cardinality(store) = 4
  /\ products[1].updated_at < other.at
  /\ RowOf(store, other.sku).updated_at > other.at
  /\ RowOf(store, other.sku).stock = <<5>>

\* --------------------------------------- claim on the count and the page
\* the page holds more rows than the count leaves after the offset
PageExceedsCount == Len(products) > Max(0, total_count - offset)

\* C25: a filter_products call returns with success after exactly its two
\* statements, whether or not a batch was committed between them; its page
\* can hold more rows than total_count - offset allows, and it does so only
\* when a batch was committed after the COUNT statement.
C25_NotIsolated ==
  (tool = "filter_products" /\ Returned) =>
    /\ Len(executed) = 2
    /\ PageExceedsCount => raced

C25_Witness ==
  /\ tool = "filter_products" /\ Returned /\ raced
  /\ Len(executed) = 2
  /\ total_count = 2 /\ offset = 2 /\ Len(products) = 2
  /\ total_pages = 1 /\ page = 2
  /\ Cardinality(store) = 4

\* ------------------------------------------------ claim on the SKU key
\* C26: no two rows of the table share an SKU; and no step of a load or of
\* update_stock removes a row or changes its SKU: every row is there
\* afterwards under the same id and SKU, so the row count never decreases.
C26_SkuStable ==
  /\ [](\A r1, r2 \in store : r1.sku = r2.sku => r1 = r2)
  /\ [][/\ \A r \in store : \E n \in store' : n.id = r.id /\ n.sku = r.sku
        /\ Cardinality(store') >= Cardinality(store)]_vars

C26_Witness ==
  /\ runs = 2 /\ row_num = 2
  /\ tool = "update_stock" /\ pc = "done" /\ result = "ok"
  /\ Cardinality(store) = 4
  /\ \E r \in store :
       /\ r.sku = <<"A", "1">> /\ r.id = 1 /\ r.stock = <<0>>
       /\ r.created_at = 1 /\ r.updated_at > 4

\* ------------------------------------------------ claim on the dispatcher
\* C27: a call of a tool that the server advertises never ends in the
\* "Unknown tool" branch of the same server.
C27_Claim ==
  (pc = "done" /\ tool \in AdvertisedTools(variant)) => result # "unknown_tool"


\* C28 as stated: at every statement executed by filter_products,
\* filter_products_advanced and advanced_search_products the number of
\* placeholders in the SQL text equals the length of the parameter list.
C28_Claim ==
  tool \in {"filter_products", "advanced_search_products"} =>
     \A i \in DOMAIN executed :
        StatementPlaceholders(executed[i]) = Len(executed[i].params)

\* the parameters ps have the shape the fragment c binds: a wildcarded text
\* for ILIKE, a number for a comparison, a plain text for = and IN
Fits(c, ps) ==
  /\ Len(ps) = c.n
  /\ \A i \in DOMAIN ps :
       CASE c.op \in {"ILIKE", "OR_ILIKE", "OR_FIELDS"} ->
              /\ ps[i].t = "str" /\ Len(ps[i].s) >= 2
              /\ Head(ps[i].s) = "%" /\ ps[i].s[Len(ps[i].s)] = "%"
         [] c.op \in {">=", "<=", ">", "<"} -> ps[i].t = "int"
         [] OTHER -> ps[i].t = "str" /\ (ps[i].s = <<>> \/ Head(ps[i].s) # "%")

RECURSIVE Aligned(_, _)
Aligned(conds, ps) ==
  IF conds = <<>> THEN ps = <<>>
  ELSE /\ Len(ps) >= Head(conds).n
       /\ Fits(Head(conds), SubSeq(ps, 1, Head(conds).n))
       /\ Aligned(Tail(conds), SubSeq(ps, Head(conds).n + 1, Len(ps)))

\* What holds of the three builders: the parameters of the WHERE fragments
\* come first, fragment by fragment in the order of the fragments, LIMIT and
\* OFFSET come last; the counts agree unless the ORDER BY list holds a
\* placeholder.
C28_Aligned ==
  tool \in {"filter_products", "advanced_search_products"} =>
     \A i \in DOMAIN executed :
        LET stmt == executed[i]
            n == Placeholders(stmt.where)
        IN /\ Len(stmt.params) >= n
           /\ Aligned(stmt.where, SubSeq(stmt.params, 1, n))
           /\ \A k \in (n + 1)..Len(stmt.params) : stmt.params[k].t = "int"
           /\ StatementPlaceholders(stmt) = Len(stmt.params)
              \/ ("order" \in DOMAIN stmt /\ OrderPlaceholders(stmt.order) > 0)

C28_AlignedWitness ==
  /\ tool = "advanced_search_products" /\ Len(executed) = 1
  /\ Len(executed[1].where) = 3 /\ Len(executed[1].params) = 13
  /\ result = "ok"


\* the other of the two compilers of the call in progress
OtherCompiler == IF variant = "server" THEN "bridge" ELSE "server"

\* every token of the ordering names one of the fields
OrderingOver(fields) ==
  \A i \in DOMAIN ArgOrdering(arguments) :
     LET f == TokenField(ArgOrdering(arguments)[i]) IN Len(f) = 1 /\ f[1] \in fields

\* the other compiler yields the clause lists of the call in progress
SameCompile ==
  /\ where_conditions =
       CompileWhere(OtherCompiler, filters, ArgSearch(arguments)).conds
  /\ params = CompileWhere(OtherCompiler, filters, ArgSearch(arguments)).params
  /\ order_fields = CompileOrdering(OtherCompiler, ArgOrdering(arguments))

\* C29 as stated: for every filter mapping over the advertised filter keys,
\* every ordering over the server's ordering fields and every search term,
\* the bridge's filter_products_advanced and the server's filter_products
\* produce the same WHERE predicates, the same parameters in the same order
\* and the same ORDER BY columns.
C29_Claim ==
  (/\ tool = "filter_products" /\ pc # "idle"
   /\ Keys(filters) \subseteq DOMAIN ServerFilterTable
   /\ OrderingOver(DOMAIN ServerFieldMapping)) => SameCompile

\* What holds of the two compilers: they agree on the filter keys the bridge
\* has a branch for and on the ordering fields that the bridge maps or that
\* name their own column.
C29_Common ==
  (/\ tool = "filter_products" /\ pc # "idle"
   /\ Keys(filters) \subseteq DOMAIN BridgeFilterTable
   /\ OrderingOver(DOMAIN BridgeFieldMapping \cup {"warehouse"})) => SameCompile

C29_CommonWitness ==
  /\ tool = "filter_products" /\ pc = "done" /\ variant = "bridge"
  /\ Len(where_conditions) = 3 /\ Len(params) = 7
  /\ Keys(filters) \subseteq DOMAIN BridgeFilterTable


\* C30 as stated: on every return path of import_csv_data the processed-row
\* count it returns equals the number of row upserts the run committed
\* (processed_rows counts them, batch by batch, after each commit), so a run
\* that returns 0 has left the table as it found it.
C30_Claim ==
  import_return # <<>> =>
    /\ import_return[1] = processed_rows
    /\ import_return[1] = 0 => store = start_store

====
